---- MODULE Spec2Model ----
(***************************************************************************)
(* CelShooter: the effects manager (src/src/game/Effects.js), the weapon   *)
(* state machines (src/unnamed/part_000, Weapon.js) and the player         *)
(* controller (src/src/game/Effects.js, class Player).                     *)
(*                                                                         *)
(* Time is counted in ticks of 0.1 s, so that every                        *)
(* duration of the source (cooldown 0.1 s, reloadTime 2.0 s, lifetime      *)
(* 30.0 s, ...) is a whole number.  An intensity is counted in thousandths.*)
(***************************************************************************)
EXTENDS Integers, Sequences, FiniteSets, TLC

VARIABLES
    activeEffects,   \* EffectsManager.activeEffects: the array of live effects
    particleCount,   \* EffectsManager.particleCount
    decalCount,      \* EffectsManager.decalCount
    sceneEffects,    \* number of effect objects attached to the scene
    fxCalls,         \* spawn calls made so far (bounded by MaxFxCalls)
    fxUpdates,       \* update calls made so far (bounded by MaxFxUpdates)
    weapons,         \* the weapon objects (Player.weapons), as a sequence of records
    reloadLog,       \* history, per weapon: the ammo it entered Reloading with and
                     \* the time passed to it since
    now,             \* performance.now() / 1000, in ticks
    currentWeaponIndex,  \* Player.currentWeaponIndex (0-based, as in the source)
    weaponContainer,     \* Player.weaponContainer.children: indices of the weapons
                         \* whose model is attached
    health,          \* Player.health
    canJump,         \* Player.canJump
    onGround,        \* Player.onGround
    currentLookVertical, \* Player.currentLookVertical, in milliradians
    rotationY,       \* Player.playerBody.rotation.y, in milliradians
    cameraRotationX, \* Player.camera.rotation.x, in milliradians
    deaths,          \* GameManager.deaths: the calls of handlePlayerDeath so far
    sceneObjects,    \* the geometry of the scene: what a ray can meet, and how far
    hitReports,      \* the hit reports the hit callback has been invoked with
    physicsWorld,    \* Physics.world.bodies: the bodies of the CANNON world
    physicsBodies,   \* Physics.bodies: the adapter's own list of bodies
    createdBodies,   \* history: the CANNON bodies constructed so far
    timers,          \* the setTimeout callbacks not yet run, with their due times
    faults,          \* the exceptions no handler caught, so far
    killFeed,        \* the children of the kill-feed element
    feedCount,       \* the kill-feed items created so far
    level,           \* the ProceduralLevel: its spawn lists and default spawn points
    contactSinceJump,\* history: a ground contact has been reported since the last
                     \* jump (or since construction)
    tickLog,         \* the work of the last pass of animate(), in its order
    gm,              \* the GameManager: what init() and start() have set
    inputController, \* the InputController: the one-frame keys and the switch delay
    op               \* the operation the last step performed: its name, its
                     \* argument and what it returned

fxVars == <<activeEffects, particleCount, decalCount, sceneEffects, fxCalls, fxUpdates>>
weaponVars == <<weapons, reloadLog, now>>
playerVars == <<currentWeaponIndex, weaponContainer, health, canJump, onGround,
                currentLookVertical, rotationY, cameraRotationX, deaths>>
hitVars == <<sceneObjects, hitReports>>
physVars == <<physicsWorld, physicsBodies, createdBodies>>
timerVars == <<timers, faults, killFeed, feedCount>>
gameVars == <<timerVars, level, contactSinceJump, tickLog, gm, inputController>>
vars == <<fxVars, weaponVars, playerVars, hitVars, physVars, gameVars, op>>

Op(name, arg, ret) == [name |-> name, arg |-> arg, ret |-> ret]

(***************************************************************************)
(* EffectsManager                                                          *)
(***************************************************************************)
maxParticleSystems == 20
maxDecals == 50
particleLifetime == 20
decalLifetime == 300

\* Bounds of the effects specification.
MaxFxCalls == 3
MaxFxUpdates == 2
FxDts == {0, 10, 290}
Intensities == {500, 1000}

\* The manager's state as one value: {activeEffects, particleCount, decalCount}
\* and the number of effect objects in the scene.
FxState(effects, pc, dc, sc) ==
    [activeEffects |-> effects, particleCount |-> pc, decalCount |-> dc, scene |-> sc]

FxNew == FxState(<<>>, 0, 0, 0)

\* Array.prototype.splice(i, 1) on a 1-based sequence.
Splice(s, i) == SubSeq(s, 1, i - 1) \o SubSeq(s, i + 1, Len(s))

\* One pass of the scan loop of removeOldestEffect at index i: candidate is the
\* pair <<oldestIndex, oldestAge>>, and an effect replaces it only when it is of
\* the wanted type and its age is strictly greater than oldestAge.
ScanStep(effects, type, i, candidate) ==
    IF effects[i].type = type /\ effects[i].age > candidate[2]
    THEN <<i, effects[i].age>>
    ELSE candidate

\* The passes lo..hi of the loop "for (i = 0; i < activeEffects.length; i++)", in
\* ascending order.  (The range is split in halves and the test on left, which is
\* always true, makes TLC evaluate the lower half first: the evaluation stays
\* shallow.)
RECURSIVE ScanRange(_, _, _, _, _)
ScanRange(effects, type, lo, hi, candidate) ==
    IF lo > hi THEN candidate
    ELSE IF lo = hi THEN ScanStep(effects, type, lo, candidate)
    ELSE LET mid == (lo + hi) \div 2
             left == ScanRange(effects, type, lo, mid, candidate)
         IN  IF left[1] >= 0 THEN ScanRange(effects, type, mid + 1, hi, left) ELSE left

\* oldestIndex starts at -1 (here 0: sequences are 1-based) and oldestAge at 0.
ScanOldest(effects, type) == ScanRange(effects, type, 1, Len(effects), <<0, 0>>)[1]

\* This one lowers the counter whether or not an effect was found.
removeOldestEffect_alwaysCounts(fx, type) ==
    LET oldestIndex == ScanOldest(fx.activeEffects, type)
    IN  FxState(IF oldestIndex >= 1 THEN Splice(fx.activeEffects, oldestIndex)
                ELSE fx.activeEffects,
                IF type = "particle" THEN fx.particleCount - 1 ELSE fx.particleCount,
                IF type = "decal" THEN fx.decalCount - 1 ELSE fx.decalCount,
                IF oldestIndex >= 1 THEN fx.scene - 1 ELSE fx.scene)

removeOldestEffect(fx, type) ==
    LET oldestIndex == ScanOldest(fx.activeEffects, type)
    IN  IF oldestIndex >= 1
        THEN FxState(Splice(fx.activeEffects, oldestIndex),
                     IF type = "particle" THEN fx.particleCount - 1 ELSE fx.particleCount,
                     IF type = "decal" THEN fx.decalCount - 1 ELSE fx.decalCount,
                     fx.scene - 1)
        ELSE fx

\* createBloodParticles: evict when the counter is at the cap, then add a burst of
\* 30 + floor(intensity * 50) particles with lifetime 2.0 s and age 0.
createBloodParticles(fx, intensity) ==
    LET f == IF fx.particleCount >= maxParticleSystems
             THEN removeOldestEffect(fx, "particle") ELSE fx
        effect == [type |-> "particle", lifetime |-> particleLifetime, age |-> 0,
                   particles |-> 30 + ((intensity * 50) \div 1000)]
    IN  FxState(Append(f.activeEffects, effect), f.particleCount + 1, f.decalCount,
                f.scene + 1)

\* createBloodSplatter: evict when the counter is at the cap, then add a decal with
\* lifetime 30.0 s and age 0.
createBloodSplatter(fx) ==
    LET f == IF fx.decalCount >= maxDecals
             THEN removeOldestEffect(fx, "decal") ELSE fx
        effect == [type |-> "decal", lifetime |-> decalLifetime, age |-> 0,
                   particles |-> 0]
    IN  FxState(Append(f.activeEffects, effect), f.particleCount, f.decalCount + 1,
                f.scene + 1)

\* n calls of createBloodSplatter one after the other, as the loop
\* "for (i = 0; i < extraSplatters; i++)" of createBloodImpact makes them.  (The
\* calls are split in halves and the test on half, which is always true, makes TLC
\* evaluate the first half first.)
RECURSIVE RepeatSplatters(_, _)
RepeatSplatters(fx, n) ==
    IF n <= 0 THEN fx
    ELSE IF n = 1 THEN createBloodSplatter(fx)
    ELSE LET half == RepeatSplatters(fx, n \div 2)
         IN  IF half.decalCount > 0 THEN RepeatSplatters(half, n - (n \div 2)) ELSE half

\* createBloodImpact: one burst, one splatter and, for intensity > 0.7,
\* floor((intensity - 0.7) * 6) more splatters.
extraSplatters(intensity) == ((intensity - 700) * 6) \div 1000

createBloodImpact(fx, intensity) ==
    LET f == createBloodSplatter(createBloodParticles(fx, intensity))
    IN  IF intensity > 700
        THEN RepeatSplatters(f, extraSplatters(intensity))
        ELSE f

\* A variant of UpdateStep that removes an effect only once its age has passed its
\* lifetime; C15 tells it from UpdateStep.
UpdateStep_late(fx, i, deltaTime) ==
    LET effect == fx.activeEffects[i]
        aged == [effect EXCEPT !.age = @ + deltaTime]
        completed == aged.age > aged.lifetime
    IN  IF completed
        THEN FxState(Splice(fx.activeEffects, i),
                     IF effect.type = "particle"
                     THEN fx.particleCount - 1 ELSE fx.particleCount,
                     IF effect.type = "decal"
                     THEN fx.decalCount - 1 ELSE fx.decalCount,
                     fx.scene - 1)
        ELSE [fx EXCEPT !.activeEffects[i] = aged]

\* update: from the last index down to the first, age the effect by deltaTime and,
\* when its age has reached its lifetime, take it out of the scene, lower its
\* counter and splice it out of the array.
\* Removing index i never moves an index below i, so the effect the loop
\* visits at index i is the one that was there when the loop began.
UpdateStep(fx, i, deltaTime) ==
    LET effect == fx.activeEffects[i]
        aged == [effect EXCEPT !.age = @ + deltaTime]
        completed == aged.age >= aged.lifetime
    IN  IF completed
        THEN FxState(Splice(fx.activeEffects, i),
                     IF effect.type = "particle"
                     THEN fx.particleCount - 1 ELSE fx.particleCount,
                     IF effect.type = "decal"
                     THEN fx.decalCount - 1 ELSE fx.decalCount,
                     fx.scene - 1)
        ELSE [fx EXCEPT !.activeEffects[i] = aged]

\* The passes hi, hi-1, ..., lo of the loop
\* "for (i = activeEffects.length - 1; i >= 0; i--)".  (The range is split in halves
\* and the test on upper, which is always true, makes TLC evaluate the upper half
\* first.)
RECURSIVE UpdateRange(_, _, _, _)
UpdateRange(fx, lo, hi, deltaTime) ==
    IF lo > hi THEN fx
    ELSE IF lo = hi THEN UpdateStep(fx, lo, deltaTime)
    ELSE LET mid == (lo + hi) \div 2
             upper == UpdateRange(fx, mid + 1, hi, deltaTime)
         IN  IF Len(upper.activeEffects) >= 0
             THEN UpdateRange(upper, lo, mid, deltaTime) ELSE upper

fxUpdate(fx, deltaTime) == UpdateRange(fx, 1, Len(fx.activeEffects), deltaTime)

\* A variant of clearAllEffects that leaves decalCount as it was; C27 tells it from
\* clearAllEffects.
clearAllEffects_keepsDecalCount(fx) ==
    FxState(<<>>, 0, fx.decalCount, fx.scene - Len(fx.activeEffects))

\* clearAllEffects: every effect's object leaves the scene, the array is emptied and
\* both counters are set to 0.
clearAllEffects(fx) == FxState(<<>>, 0, 0, fx.scene - Len(fx.activeEffects))

\* n calls of createBloodParticles in a row, as one weapon hit after another makes
\* them with no update in between.
RECURSIVE RepeatParticles(_, _)
RepeatParticles(fx, n) ==
    IF n <= 0 THEN fx
    ELSE IF n = 1 THEN createBloodParticles(fx, 1000)
    ELSE LET half == RepeatParticles(fx, n \div 2)
         IN  IF half.particleCount > 0
             THEN RepeatParticles(half, n - (n \div 2)) ELSE half

Fx == FxState(activeEffects, particleCount, decalCount, sceneEffects)

SetFx(fx) ==
    /\ activeEffects' = fx.activeEffects
    /\ particleCount' = fx.particleCount
    /\ decalCount' = fx.decalCount
    /\ sceneEffects' = fx.scene

FxInit ==
    /\ activeEffects = FxNew.activeEffects
    /\ particleCount = FxNew.particleCount
    /\ decalCount = FxNew.decalCount
    /\ sceneEffects = FxNew.scene
    /\ fxCalls = 0
    /\ fxUpdates = 0

CreateBloodParticles ==
    /\ fxCalls < MaxFxCalls
    /\ \E intensity \in Intensities :
          /\ SetFx(createBloodParticles(Fx, intensity))
          /\ op' = Op("createBloodParticles", intensity, FALSE)
    /\ fxCalls' = fxCalls + 1
    /\ UNCHANGED <<fxUpdates, weaponVars, playerVars, hitVars, physVars, gameVars>>

CreateBloodSplatter ==
    /\ fxCalls < MaxFxCalls
    /\ SetFx(createBloodSplatter(Fx))
    /\ op' = Op("createBloodSplatter", 0, FALSE)
    /\ fxCalls' = fxCalls + 1
    /\ UNCHANGED <<fxUpdates, weaponVars, playerVars, hitVars, physVars, gameVars>>

CreateBloodImpact ==
    /\ fxCalls < MaxFxCalls
    /\ \E intensity \in Intensities :
          /\ SetFx(createBloodImpact(Fx, intensity))
          /\ op' = Op("createBloodImpact", intensity, FALSE)
    /\ fxCalls' = fxCalls + 1
    /\ UNCHANGED <<fxUpdates, weaponVars, playerVars, hitVars, physVars, gameVars>>

\* A run of maxParticleSystems - 1 bursts: it fills an empty manager to one below
\* the particle cap.
ParticleRun ==
    /\ fxCalls < MaxFxCalls
    /\ SetFx(RepeatParticles(Fx, maxParticleSystems - 1))
    /\ op' = Op("particleRun", maxParticleSystems - 1, FALSE)
    /\ fxCalls' = fxCalls + 1
    /\ UNCHANGED <<fxUpdates, weaponVars, playerVars, hitVars, physVars, gameVars>>

\* A run of maxDecals - 1 splatters.
SplatterRun ==
    /\ fxCalls < MaxFxCalls
    /\ SetFx(RepeatSplatters(Fx, maxDecals - 1))
    /\ op' = Op("splatterRun", maxDecals - 1, FALSE)
    /\ fxCalls' = fxCalls + 1
    /\ UNCHANGED <<fxUpdates, weaponVars, playerVars, hitVars, physVars, gameVars>>

FxUpdate ==
    /\ fxUpdates < MaxFxUpdates
    /\ \E deltaTime \in FxDts :
          /\ SetFx(fxUpdate(Fx, deltaTime))
          /\ op' = Op("update", deltaTime, FALSE)
    /\ fxUpdates' = fxUpdates + 1
    /\ UNCHANGED <<fxCalls, weaponVars, playerVars, hitVars, physVars, gameVars>>

ClearAllEffects ==
    /\ SetFx(clearAllEffects(Fx))
    /\ op' = Op("clearAllEffects", [particles |-> particleCount, decals |-> decalCount],
                FALSE)
    /\ UNCHANGED <<fxCalls, fxUpdates, weaponVars, playerVars, hitVars, physVars, gameVars>>
\* The impact specification: impacts from half to full strength and at the two
\* sides of 0.7.
ImpactIntensities == {500, 700, 800, 1000}

CreateImpact ==
    /\ fxCalls < MaxFxCalls
    /\ \E intensity \in ImpactIntensities :
          /\ SetFx(createBloodImpact(Fx, intensity))
          /\ op' = Op("createBloodImpact", intensity, FALSE)
    /\ fxCalls' = fxCalls + 1
    /\ UNCHANGED <<fxUpdates, weaponVars, playerVars, hitVars, physVars, gameVars>>




(***************************************************************************)
(* Weapon, MeleeWeapon, RangedWeapon                                       *)
(*                                                                         *)
(* A weapon is a record.  reloadProgress and swingProgress are kept as the *)
(* time summed so far (the source sums deltaTime / reloadTime and compares *)
(* with 1.0; here deltaTime is summed and compared with reloadTime).       *)
(***************************************************************************)

\* "params.x || d": a parameter that is absent (or 0) takes the default.
Or(value, default) == IF value = 0 THEN default ELSE value

NoAmmo == [current |-> 0, max |-> 0, reserve |-> 0]

\* new MeleeWeapon(params): damage 40, range 2.5 (a range is counted in tenths),
\* cooldown 0.8 s and swingDuration 0.3 s by default.
MeleeWeapon(params) ==
    [type |-> "melee",
     damage |-> Or(params.damage, 40),
     range |-> Or(params.range, 25),
     cooldown |-> Or(params.cooldown, 8),
     lastUsed |-> 0,
     ammo |-> NoAmmo,
     reloadTime |-> 0,
     isReloading |-> FALSE,
     reloadProgress |-> 0,
     swingDuration |-> Or(params.swingDuration, 3),
     isSwinging |-> FALSE,
     swingProgress |-> 0,
     rotation |-> 0,
     initialRotation |-> 0,
     targetRotation |-> 0]

\* new RangedWeapon(params): damage 25, range 100, cooldown 0.1 s, 30 rounds of 30
\* with 90 in reserve and reloadTime 2.0 s by default.
RangedWeapon(params) ==
    [type |-> "ranged",
     damage |-> Or(params.damage, 25),
     range |-> Or(params.range, 1000),
     cooldown |-> Or(params.cooldown, 1),
     lastUsed |-> 0,
     ammo |-> [current |-> Or(params.startAmmo, 30),
               max |-> Or(params.maxAmmo, 30),
               reserve |-> Or(params.reserveAmmo, 90)],
     reloadTime |-> Or(params.reloadTime, 20),
     isReloading |-> FALSE,
     reloadProgress |-> 0,
     swingDuration |-> 0,
     isSwinging |-> FALSE,
     swingProgress |-> 0]

MeleeParams(cooldown, swingDuration) ==
    [damage |-> 0, range |-> 0, cooldown |-> cooldown, swingDuration |-> swingDuration]

RangedParams(cooldown, startAmmo, maxAmmo, reserveAmmo, reloadTime) ==
    [damage |-> 0, range |-> 0, cooldown |-> cooldown, startAmmo |-> startAmmo,
     maxAmmo |-> maxAmmo, reserveAmmo |-> reserveAmmo, reloadTime |-> reloadTime]

\* params with "damage" and "range" given.
WithDamage(params, damage, range) ==
    [params EXCEPT !.damage = damage, !.range = range]

\* What a method leaves behind: the weapon and the value returned.
Result(weapon, ret) == [weapon |-> weapon, ret |-> ret]

\* Math.round of the fraction num / den (den > 0): the nearest integer, a half
\* rounded up.
Round(num, den) == (2 * num + den) \div (2 * den)

Max(a, b) == IF a >= b THEN a ELSE b

\* A variant of calculateDamage whose falloff is not held at 0; C16 tells it from
\* calculateDamage.
calculateDamage_noFloor(w, modifiers) ==
    LET doubled == IF modifiers.critical THEN w.damage * 2 ELSE w.damage
    IN  IF modifiers.distance # 0
        THEN Round(doubled * (w.range - modifiers.distance), w.range)
        ELSE Round(doubled, 1)

\* Weapon.calculateDamage: the damage is doubled when modifiers.critical is set,
\* multiplied by max(0, 1 - distance / range) when modifiers.distance is set (and
\* not 0), and rounded.
calculateDamage(w, modifiers) ==
    LET doubled == IF modifiers.critical THEN w.damage * 2 ELSE w.damage
    IN  IF modifiers.distance # 0
        THEN Round(doubled * Max(0, w.range - modifiers.distance), w.range)
        ELSE Round(doubled, 1)

\* Weapon.canUse
canUse(w, t) == t - w.lastUsed >= w.cooldown

\* Weapon.use
weaponUse(w, t) ==
    IF ~canUse(w, t) THEN Result(w, FALSE)
    ELSE Result([w EXCEPT !.lastUsed = t], TRUE)

\* MeleeWeapon.use.  performHitDetection intersects every ray with the empty list
\* "intersectObjects([])", so it finds no hit and changes nothing.
\* The model's rotation about x is in thousandths of the swing angle, pi / 4: the
\* swing's target lies swingAngle below the rotation the swing starts from (the
\* rotation about z follows the same course).
swingAngle == 1000

meleeUse(w, t) ==
    LET base == weaponUse(w, t)
    IN  IF ~base.ret THEN Result(w, FALSE)
        ELSE Result([base.weapon EXCEPT !.isSwinging = TRUE, !.swingProgress = 0,
                                        !.initialRotation = w.rotation,
                                        !.targetRotation = w.rotation - swingAngle],
                    TRUE)

\* A variant of reload that starts a reload on a full magazine; C8 tells it from
\* reload.
reload_onFullMagazine(w) ==
    IF w.isReloading \/ w.ammo.reserve <= 0
    THEN Result(w, FALSE)
    ELSE Result([w EXCEPT !.isReloading = TRUE, !.reloadProgress = 0], TRUE)

\* RangedWeapon.reload
reload(w) ==
    IF w.isReloading \/ w.ammo.current = w.ammo.max \/ w.ammo.reserve <= 0
    THEN Result(w, FALSE)
    ELSE Result([w EXCEPT !.isReloading = TRUE, !.reloadProgress = 0], TRUE)

\* A variant of rangedUse that fires during a reload; C9 tells it from rangedUse.
rangedUse_whileReloading(w, t) ==
    IF w.ammo.current <= 0 THEN Result(reload(w).weapon, FALSE)
    ELSE LET base == weaponUse(w, t)
         IN  IF ~base.ret THEN Result(w, FALSE)
             ELSE Result([base.weapon EXCEPT !.ammo.current = @ - 1], TRUE)

\* RangedWeapon.use
rangedUse(w, t) ==
    IF w.isReloading THEN Result(w, FALSE)
    ELSE IF w.ammo.current <= 0 THEN Result(reload(w).weapon, FALSE)
    ELSE LET base == weaponUse(w, t)
         IN  IF ~base.ret THEN Result(w, FALSE)
             ELSE Result([base.weapon EXCEPT !.ammo.current = @ - 1], TRUE)

use(w, t) == IF w.type = "melee" THEN meleeUse(w, t) ELSE rangedUse(w, t)

\* A piece of the scene's geometry as a ray meets it: the ray of the fan it lies on
\* (0 the centre ray, 1..arcSteps the left ones, arcSteps+1..2*arcSteps the right
\* ones), its distance in tenths and whether it is an enemy.
SceneObject(ray, distance, isEnemy) ==
    [ray |-> ray, distance |-> distance, isEnemy |-> isEnemy]

arcSteps == 5

\* raycaster.intersectObjects(objects) with the raycaster set along a ray and its
\* "far" set: the intersections with the objects of the list that lie on the ray,
\* no farther than far.
intersectObjects(objects, ray, far) ==
    {o \in objects : o.ray = ray /\ o.distance <= far}

\* The first element of the hits sorted by distance.
Closest(hits) == CHOOSE h \in hits : \A g \in hits : h.distance <= g.distance

\* What the hit callback is invoked with.
HitReport(hit, damage) ==
    [ray |-> hit.ray, distance |-> hit.distance, isEnemy |-> hit.isEnemy,
     damage |-> damage, critical |-> FALSE]

\* A variant of performHitDetection that casts its rays at the geometry of the scene
\* and without a "far"; C18 tells it from performHitDetection.
performHitDetection_sceneNoFar(w, scene) ==
    LET hits == {o \in scene : o.ray \in 0..(2 * arcSteps)}
    IN  IF hits # {}
        THEN <<HitReport(Closest(hits),
                         calculateDamage(w, [critical |-> FALSE,
                                             distance |-> Closest(hits).distance]))>>
        ELSE <<>>

\* MeleeWeapon.performHitDetection: the centre ray and the arc rays are each cast at
\* the empty list "intersectObjects([])", the hits are sorted by distance and, when
\* there is one and the closest lies within the range, the callback is invoked with
\* it and with calculateDamage({distance}).  The result is the sequence of the
\* callback's invocations.
performHitDetection(w, scene) ==
    LET hits == UNION {intersectObjects({}, ray, w.range) : ray \in 0..(2 * arcSteps)}
    IN  IF hits # {} /\ Closest(hits).distance <= w.range
        THEN <<HitReport(Closest(hits),
                         calculateDamage(w, [critical |-> FALSE,
                                             distance |-> Closest(hits).distance]))>>
        ELSE <<>>

\* RangedWeapon.performRaycast: one ray cast at the empty list; the first hit, when
\* there is one, is reported to the callback.
performRaycast(w, scene) ==
    LET hits == intersectObjects({}, 0, w.range)
    IN  IF hits # {}
        THEN <<HitReport(Closest(hits),
                         calculateDamage(w, [critical |-> FALSE,
                                             distance |-> Closest(hits).distance]))>>
        ELSE <<>>

\* The invocations of hitCallback that use(position, direction, hitCallback) makes:
\* a use that returns true ends with the hit detection of its class (useProjectile
\* is false), a use that returns false makes none.
hitCallbacks(w, t, scene) ==
    IF ~use(w, t).ret THEN <<>>
    ELSE IF w.type = "melee" THEN performHitDetection(w, scene)
    ELSE performRaycast(w, scene)

Min(a, b) == IF a <= b THEN a ELSE b

\* A variant of rangedUpdate that takes the whole of ammoNeeded from the reserve;
\* C4 tells it from rangedUpdate.
rangedUpdate_takesNeeded(w, deltaTime) ==
    IF ~w.isReloading THEN w
    ELSE LET progress == w.reloadProgress + deltaTime
         IN  IF progress >= w.reloadTime
             THEN LET ammoNeeded == w.ammo.max - w.ammo.current
                      ammoAvailable == Min(ammoNeeded, w.ammo.reserve)
                  IN  [w EXCEPT !.reloadProgress = progress,
                                !.isReloading = FALSE,
                                !.ammo.current = @ + ammoAvailable,
                                !.ammo.reserve = @ - ammoNeeded]
             ELSE [w EXCEPT !.reloadProgress = progress]

\* A variant of rangedUpdate that completes the reload only once reloadProgress has
\* passed 1.0; C6 tells it from rangedUpdate.
rangedUpdate_late(w, deltaTime) ==
    IF ~w.isReloading THEN w
    ELSE LET progress == w.reloadProgress + deltaTime
         IN  IF progress > w.reloadTime
             THEN LET ammoNeeded == w.ammo.max - w.ammo.current
                      ammoAvailable == Min(ammoNeeded, w.ammo.reserve)
                  IN  [w EXCEPT !.reloadProgress = progress,
                                !.isReloading = FALSE,
                                !.ammo.current = @ + ammoAvailable,
                                !.ammo.reserve = @ - ammoAvailable]
             ELSE [w EXCEPT !.reloadProgress = progress]

\* RangedWeapon.update
rangedUpdate(w, deltaTime) ==
    IF ~w.isReloading THEN w
    ELSE LET progress == w.reloadProgress + deltaTime
         IN  IF progress >= w.reloadTime
             THEN LET ammoNeeded == w.ammo.max - w.ammo.current
                      ammoAvailable == Min(ammoNeeded, w.ammo.reserve)
                  IN  [w EXCEPT !.reloadProgress = progress,
                                !.isReloading = FALSE,
                                !.ammo.current = @ + ammoAvailable,
                                !.ammo.reserve = @ - ammoAvailable]
             ELSE [w EXCEPT !.reloadProgress = progress]

\* MeleeWeapon.update
\* The ease of the swing at progress / duration, in thousandths: 2 t^2 below the
\* half, -1 + (4 - 2 t) t from it.
ease(progress, duration) ==
    IF 2 * progress < duration
    THEN (2000 * progress * progress) \div (duration * duration)
    ELSE (1000 * (4 * progress * duration - 2 * progress * progress
                  - duration * duration)) \div (duration * duration)

\* THREE.MathUtils.lerp(x, y, t), t in thousandths
lerp(x, y, t) == x + ((y - x) * t) \div 1000

\* MeleeWeapon.update: a swing advances by deltaTime / swingDuration; at 1.0 it ends
\* and the model is put back at initialRotation, before that the model is turned
\* from initialRotation towards targetRotation.
meleeUpdate(w, deltaTime) ==
    IF ~w.isSwinging THEN w
    ELSE LET progress == w.swingProgress + deltaTime
         IN  IF progress >= w.swingDuration
             THEN [w EXCEPT !.isSwinging = FALSE, !.swingProgress = 0,
                            !.rotation = w.initialRotation]
             ELSE [w EXCEPT !.swingProgress = progress,
                            !.rotation = lerp(w.initialRotation, w.targetRotation,
                                              ease(progress, w.swingDuration))]

update(w, deltaTime) ==
    IF w.type = "melee" THEN meleeUpdate(w, deltaTime) ELSE rangedUpdate(w, deltaTime)

\* The history of a weapon's reloads: when the weapon enters Reloading, the ammo it
\* has at that moment and a time of 0; elapsed then grows by the deltaTime of every
\* later update.
NoReload == [ammo |-> NoAmmo, elapsed |-> 0, by |-> "none"]

LogAfter(log, before, after, deltaTime, by) ==
    IF ~before.isReloading /\ after.isReloading
    THEN [ammo |-> after.ammo, elapsed |-> 0, by |-> by]
    ELSE IF before.isReloading THEN [log EXCEPT !.elapsed = @ + deltaTime]
    ELSE log

\* Bounds of the weapon specification.
MaxNow == 10
TickSteps == {2, 8}
WeaponDts == {2, 10}
CooldownParams == {0, 2}
StartAmmoParams == {0, 1, 3}
MaxAmmoParams == {0, 2}
ReserveAmmoParams == {0, 3}
ReloadTimeParams == {0, 3}

\* The weapons the weapon specification constructs: with the timing parameters
\* given or left to their defaults, and with the ammunition parameters given or left
\* to their defaults (0 stands for a parameter that is not given).
NewWeapons ==
    { RangedWeapon(RangedParams(c, 0, 0, 0, t)) :
          c \in CooldownParams, t \in ReloadTimeParams }
    \cup { RangedWeapon(RangedParams(2, s, m, r, 3)) :
          s \in StartAmmoParams, m \in MaxAmmoParams, r \in ReserveAmmoParams }
    \cup { MeleeWeapon(MeleeParams(c, 0)) : c \in CooldownParams }

\* The weapon the weapon specification is about.
W == weapons[1]

WeaponInit ==
    /\ \E w \in NewWeapons : weapons = <<w>>
    /\ reloadLog = <<NoReload>>
    /\ now = 0

\* Time passes.
Tick ==
    /\ \E d \in TickSteps :
          /\ now + d <= MaxNow
          /\ now' = now + d
          /\ op' = Op("tick", d, FALSE)
    /\ UNCHANGED <<weapons, reloadLog, fxVars, playerVars, hitVars, physVars, gameVars>>

Use ==
    /\ LET r == use(W, now)
       IN  /\ weapons' = <<r.weapon>>
           /\ reloadLog' = <<LogAfter(reloadLog[1], W, r.weapon, 0, "use")>>
           /\ hitReports' = hitReports \o hitCallbacks(W, now, sceneObjects)
           /\ op' = Op("use", 0, r.ret)
    /\ UNCHANGED <<now, fxVars, playerVars, sceneObjects, physVars, gameVars>>

Reload ==
    /\ W.type = "ranged"
    /\ LET r == reload(W)
       IN  /\ weapons' = <<r.weapon>>
           /\ reloadLog' = <<LogAfter(reloadLog[1], W, r.weapon, 0, "reload")>>
           /\ op' = Op("reload", 0, r.ret)
    /\ UNCHANGED <<now, fxVars, playerVars, hitVars, physVars, gameVars>>

Update ==
    /\ \E deltaTime \in WeaponDts :
          /\ weapons' = <<update(W, deltaTime)>>
          /\ reloadLog' = <<LogAfter(reloadLog[1], W, update(W, deltaTime), deltaTime, "none")>>
          /\ op' = Op("update", deltaTime, FALSE)
    /\ UNCHANGED <<now, fxVars, playerVars, hitVars, physVars, gameVars>>


\* The weapons and the modifiers of the damage specification: damage and range given
\* or left to their defaults, distances of 0, within the range, at the range and
\* beyond it.
DamageParams == {0, 5, 15}
RangeParams == {0, 100}
Distances == {0, 5, 20, 25, 30, 95, 100, 1000, 1500}

DamageWeapons ==
    { MeleeWeapon(WithDamage(MeleeParams(0, 0), d, r)) :
          d \in DamageParams, r \in RangeParams }
    \cup { RangedWeapon(WithDamage(RangedParams(0, 0, 0, 0, 0), d, r)) :
          d \in DamageParams, r \in RangeParams }

DamageInit ==
    /\ \E w \in DamageWeapons : weapons = <<w>>
    /\ reloadLog = <<NoReload>>
    /\ now = 0

\* weapon.calculateDamage(modifiers)
CalculateDamage ==
    /\ \E critical \in BOOLEAN, distance \in Distances :
          LET modifiers == [critical |-> critical, distance |-> distance]
          IN  op' = Op("calculateDamage", modifiers, calculateDamage(W, modifiers))
    /\ UNCHANGED <<fxVars, weaponVars, playerVars, hitVars, physVars, gameVars>>

\* The weapons and the scenes of the hit specification: a melee weapon with the
\* default damage 40 and range 2.5 and a ranged weapon with the default damage 25 and
\* range 100; scenes with nothing in them, with an enemy at distance 2.0 on the
\* centre ray, with a nearer wall on an arc ray as well, with an enemy on an arc ray
\* only, and with geometry beyond the melee range or beyond both ranges.
HitWeapons ==
    { MeleeWeapon(MeleeParams(0, 0)), RangedWeapon(RangedParams(2, 3, 3, 3, 3)) }

Scenes ==
    { {},
      {SceneObject(0, 20, TRUE)},
      {SceneObject(0, 20, TRUE), SceneObject(3, 10, FALSE)},
      {SceneObject(7, 20, TRUE)},
      {SceneObject(0, 30, TRUE)},
      {SceneObject(0, 1500, FALSE)} }

HitInit ==
    /\ \E w \in HitWeapons : weapons = <<w>>
    /\ reloadLog = <<NoReload>>
    /\ now = 0
    /\ sceneObjects \in Scenes
    /\ hitReports = <<>>

(***************************************************************************)
(* Physics                                                                 *)
(*                                                                         *)
(* The adapter keeps its own list of bodies next to the CANNON world.  The *)
(* world is the cannon-es library: world.addBody ignores a body it already *)
(* holds, world.removeBody ignores a body it does not hold.  A length is   *)
(* counted in tenths.                                                      *)
(***************************************************************************)
Body(id, shape, dims) == [id |-> id, shape |-> shape, dims |-> dims]

Physics(world, bodies) == [world |-> world, bodies |-> bodies]

\* new Physics(): an empty world and an empty list.
PhysicsNew == Physics(<<>>, <<>>)

Phys == Physics(physicsWorld, physicsBodies)

Elements(seq) == {seq[i] : i \in DOMAIN seq}

\* array.indexOf(x): the first position of x, counted from 0, or -1.
IndexOf(seq, x) ==
    IF x \in Elements(seq)
    THEN (CHOOSE i \in DOMAIN seq : seq[i] = x /\ \A j \in 1..(i - 1) : seq[j] # x) - 1
    ELSE -1

\* array.splice(index, 1): a negative index counts from the end of the array.
SpliceAt(seq, index) ==
    LET at == IF index < 0 THEN Len(seq) + index + 1 ELSE index + 1
    IN  IF at \in DOMAIN seq
        THEN SubSeq(seq, 1, at - 1) \o SubSeq(seq, at + 1, Len(seq))
        ELSE seq

\* world.addBody(body) and world.removeBody(body) of the library.
worldAddBody(world, body) ==
    IF body \in Elements(world) THEN world ELSE Append(world, body)

worldRemoveBody(world, body) ==
    IF IndexOf(world, body) # -1 THEN SpliceAt(world, IndexOf(world, body)) ELSE world

\* Physics.addBody(body)
addBody(phys, body) ==
    Physics(worldAddBody(phys.world, body), Append(phys.bodies, body))

\* The same without the test of the index: splice(-1, 1) takes the last body away.
removeBody_spliceUnguarded(phys, body) ==
    Physics(worldRemoveBody(phys.world, body),
            SpliceAt(phys.bodies, IndexOf(phys.bodies, body)))

\* Physics.removeBody(body)
removeBody(phys, body) ==
    LET index == IndexOf(phys.bodies, body)
    IN  Physics(worldRemoveBody(phys.world, body),
                IF index # -1 THEN SpliceAt(phys.bodies, index) ELSE phys.bodies)

\* Physics.update(deltaTime).  Here a time is counted in thirds of a millisecond, so
\* that the time step of 1/60 s is the whole number 50; deltaTime is in milliseconds.
timeStep == 50
maxSubSteps == 3

\* world.step(timeStep, dt, maxSubSteps) of the library: dt is added to what the
\* earlier calls left in the accumulator, and sub-steps of timeStep are made while
\* the accumulator holds one, maxSubSteps at most.  The result is their number.
worldStep(step, dt, subSteps, accumulator) == Min(subSteps, (accumulator + dt) \div step)

\* The same without the limit of 0.1 s on deltaTime.
physicsUpdate_noClamp(deltaTime, accumulator) ==
    LET dt == deltaTime * 3
    IN  [timeStep |-> timeStep, dt |-> dt, maxSubSteps |-> maxSubSteps,
         subSteps |-> worldStep(timeStep, dt, maxSubSteps, accumulator)]

physicsUpdate(deltaTime, accumulator) ==
    LET dt == Min(deltaTime, 100) * 3
    IN  [timeStep |-> timeStep, dt |-> dt, maxSubSteps |-> maxSubSteps,
         subSteps |-> worldStep(timeStep, dt, maxSubSteps, accumulator)]

\* The frame times tried, in milliseconds, and what the accumulator may hold.
PhysicsDts == {16, 100, 5000}
Accumulators == {0, 49}

\* The options of createBox and createSphere: a size or a radius is given or left to
\* its default, (1, 1, 1) and 0.5.
BoxOptions(hasSize, size) == [hasSize |-> hasSize, size |-> size]
SphereOptions(hasRadius, radius) == [hasRadius |-> hasRadius, radius |-> radius]

\* The bodies createGround, createBox and createSphere construct.
groundBody(id) == Body(id, "plane", <<>>)

boxBody(id, options) ==
    Body(id, "box", IF options.hasSize THEN options.size ELSE <<10, 10, 10>>)

sphereBody(id, options) ==
    Body(id, "sphere", <<IF options.hasRadius THEN options.radius ELSE 5>>)

\* Physics.createGround(options), createBox(options), createSphere(options)
createGround(phys, id) == addBody(phys, groundBody(id))

createBox(phys, id, options) == addBody(phys, boxBody(id, options))

createSphere(phys, id, options) == addBody(phys, sphereBody(id, options))

\* Physics.reset(): every body of the list removed, then a new world.
RECURSIVE RemoveAll(_)
RemoveAll(phys) ==
    IF Len(phys.bodies) > 0 THEN RemoveAll(removeBody(phys, phys.bodies[1])) ELSE phys

reset(phys) == Physics(<<>>, RemoveAll(phys).bodies)

\* The body Player.initPhysics constructs and a body that is never added.
PlayerBody == Body(0, "sphere", <<5>>)
StrayBody == Body(-1, "box", <<10, 10, 10>>)

\* The options tried: the defaults, a zero and a negative dimension.
BoxOptionsTried ==
    { BoxOptions(FALSE, <<0, 0, 0>>), BoxOptions(TRUE, <<20, 0, 20>>),
      BoxOptions(TRUE, <<-10, 20, 20>>) }

SphereOptionsTried ==
    { SphereOptions(FALSE, 0), SphereOptions(TRUE, 0), SphereOptions(TRUE, -5) }

CooldownsTried == {-5, 0, 8}

MaxBodies == 2

SetPhysics(phys) ==
    /\ physicsWorld' = phys.world
    /\ physicsBodies' = phys.bodies

PhysicsInit ==
    /\ physicsWorld = PhysicsNew.world
    /\ physicsBodies = PhysicsNew.bodies
    /\ createdBodies = <<>>

\* After "new Player(scene, physics, camera)": initPhysics has added the player's body
\* to the world, not through the adapter.
PlayerPhysicsInit ==
    /\ physicsWorld = worldAddBody(PhysicsNew.world, PlayerBody)
    /\ physicsBodies = PhysicsNew.bodies
    /\ createdBodies = <<PlayerBody>>

\* What the physics calls leave alone.
PhysicsUnchanged == UNCHANGED <<fxVars, weaponVars, playerVars, hitVars, gameVars>>

NextBodyId == Len(createdBodies) + 1

CreateGround ==
    /\ Len(createdBodies) < MaxBodies
    /\ SetPhysics(createGround(Phys, NextBodyId))
    /\ createdBodies' = Append(createdBodies, groundBody(NextBodyId))
    /\ op' = Op("createGround", 0, [thrown |-> FALSE])
    /\ PhysicsUnchanged

CreateBox ==
    /\ Len(createdBodies) < MaxBodies
    /\ \E options \in BoxOptionsTried :
          /\ SetPhysics(createBox(Phys, NextBodyId, options))
          /\ createdBodies' = Append(createdBodies, boxBody(NextBodyId, options))
          /\ op' = Op("createBox", options, [thrown |-> FALSE])
    /\ PhysicsUnchanged

\* The library is not part of the source: "new CANNON.Sphere(radius)" may refuse a
\* negative radius by an exception, and then no body is made.
CreateSphere ==
    /\ Len(createdBodies) < MaxBodies
    /\ \E options \in SphereOptionsTried :
       \E thrown \in IF options.hasRadius /\ options.radius < 0 THEN BOOLEAN ELSE {FALSE} :
          /\ IF thrown
             THEN UNCHANGED physVars
             ELSE /\ SetPhysics(createSphere(Phys, NextBodyId, options))
                  /\ createdBodies' = Append(createdBodies, sphereBody(NextBodyId, options))
          /\ op' = Op("createSphere", options, [thrown |-> thrown])
    /\ PhysicsUnchanged

\* Player.initPhysics(): the player's body goes to the world directly.
InitPhysics ==
    /\ PlayerBody \notin Elements(createdBodies)
    /\ physicsWorld' = worldAddBody(physicsWorld, PlayerBody)
    /\ createdBodies' = Append(createdBodies, PlayerBody)
    /\ op' = Op("initPhysics", 0, [thrown |-> FALSE])
    /\ UNCHANGED physicsBodies
    /\ PhysicsUnchanged

\* physics.removeBody(body), of a body made before or of one never added.  The
\* operation records the index the body had in the adapter's list.
RemoveBody ==
    /\ \E body \in Elements(createdBodies) \cup {StrayBody} :
          /\ SetPhysics(removeBody(Phys, body))
          /\ op' = Op("removeBody",
                      [body |-> body, index |-> IndexOf(physicsBodies, body),
                       inWorld |-> body \in Elements(physicsWorld)],
                      [thrown |-> FALSE])
    /\ UNCHANGED createdBodies
    /\ PhysicsUnchanged

\* physics.reset()
Reset ==
    /\ SetPhysics(reset(Phys))
    /\ op' = Op("reset", 0, [thrown |-> FALSE])
    /\ UNCHANGED createdBodies
    /\ PhysicsUnchanged

\* physics.update(deltaTime): the bodies stay in the world and in the list.
PhysicsUpdate ==
    /\ \E deltaTime \in PhysicsDts, accumulator \in Accumulators :
          op' = Op("physicsUpdate", deltaTime, physicsUpdate(deltaTime, accumulator))
    /\ UNCHANGED physVars
    /\ PhysicsUnchanged

\* new MeleeWeapon({cooldown}) or new RangedWeapon({cooldown})
NewWeapon ==
    /\ \E cooldown \in CooldownsTried :
       \E w \in { MeleeWeapon(MeleeParams(cooldown, 0)),
                  RangedWeapon(RangedParams(cooldown, 0, 0, 0, 0)) } :
          /\ weapons' = <<w>>
          /\ reloadLog' = <<NoReload>>
          /\ op' = Op("newWeapon", cooldown, [thrown |-> FALSE])
    /\ UNCHANGED <<now, fxVars, playerVars, hitVars, physVars, gameVars>>

(***************************************************************************)
(* ProceduralLevel: the spawn points                                       *)
(*                                                                         *)
(* A point is <<x, y, z>>, in whole units.  Math.random() is a number of   *)
(* thousandths, 0..999.                                                    *)
(***************************************************************************)
Level(teamA, teamB, teamASpawnPoint, teamBSpawnPoint) ==
    [spawnPoints |-> [teamA |-> teamA, teamB |-> teamB],
     teamASpawnPoint |-> teamASpawnPoint,
     teamBSpawnPoint |-> teamBSpawnPoint,
     blockCount |-> 20,
     objects |-> <<>>]

\* new ProceduralLevel(scene, physics, assetGenerator)
LevelNew == Level(<<>>, <<>>, <<-20, 2, 0>>, <<20, 2, 0>>)

\* clearLevel(), as far as the level goes: the lists of blocks, ramps and platforms
\* (here one list, objects, of their bodies) and the spawn lists are emptied.
clearLevel(lv) ==
    [lv EXCEPT !.spawnPoints = [teamA |-> <<>>, teamB |-> <<>>], !.objects = <<>>]

\* clearLevel(), as far as the physics goes: physics.removeBody for the body of every
\* block, ramp and platform of the lists.  (The bodies are distinct, so removing them
\* one by one leaves the others in their order.)
clearLevelBodies(phys, lv) ==
    LET kept(body) == body \notin Elements(lv.objects)
    IN  Physics(SelectSeq(phys.world, kept), SelectSeq(phys.bodies, kept))

spawnPointCount == 5

\* createSpawnArea(x, y, z, team): spawnPointCount points around (x, y, z), the i-th
\* at the i-th of the given offsets.
createSpawnArea(lv, centre, team, offsets) ==
    LET points == [i \in 1..spawnPointCount |->
                      <<centre[1] + offsets[i][1], centre[2], centre[3] + offsets[i][2]>>]
    IN  [lv EXCEPT !.spawnPoints[team] = lv.spawnPoints[team] \o points]

\* generate(options): the options replace the default spawn points when given, the
\* level is cleared and the two spawn areas are made.
NoPoint == <<>>

generate(lv, options, offsetsA, offsetsB) ==
    LET a == IF options.teamASpawnPoint # NoPoint
             THEN options.teamASpawnPoint ELSE lv.teamASpawnPoint
        b == IF options.teamBSpawnPoint # NoPoint
             THEN options.teamBSpawnPoint ELSE lv.teamBSpawnPoint
        cleared == clearLevel([lv EXCEPT !.teamASpawnPoint = a, !.teamBSpawnPoint = b,
                                         !.blockCount = IF options.blockCount # 0
                                                        THEN options.blockCount
                                                        ELSE lv.blockCount])
    IN  createSpawnArea(createSpawnArea(cleared, a, "teamA", offsetsA), b, "teamB", offsetsB)

\* This one takes the point at floor(random * length) even from an empty list: the
\* call faults there.
getRandomSpawnPoint_noFallback(lv, team, random) ==
    LET points == lv.spawnPoints[team]
        index == (random * Len(points)) \div 1000
    IN  IF index + 1 \in DOMAIN points
        THEN [fault |-> FALSE, point |-> points[index + 1]]
        ELSE [fault |-> TRUE, point |-> NoPoint]

\* getRandomSpawnPoint(team)
getRandomSpawnPoint(lv, team, random) ==
    LET points == lv.spawnPoints[team]
        index == (random * Len(points)) \div 1000
    IN  IF Len(points) = 0
        THEN [fault |-> FALSE,
              point |-> IF team = "teamA" THEN lv.teamASpawnPoint ELSE lv.teamBSpawnPoint]
        ELSE IF index + 1 \in DOMAIN points
             THEN [fault |-> FALSE, point |-> points[index + 1]]
             ELSE [fault |-> TRUE, point |-> NoPoint]

\* The level specification: generate with and without its own spawn points, the
\* random offsets of createSpawnArea all zero, spread or at the edges of the area.
LevelOptions ==
    [teamASpawnPoint : {NoPoint, <<-10, 2, 5>>}, teamBSpawnPoint : {NoPoint, <<10, 2, 5>>},
     blockCount : {0, 4}]

\* The bodies one generate() constructs, in the order of their construction: the
\* ground (createGround), the four outer walls (createOuterWalls; their boxes are
\* kept nowhere), the blocks, ramps and platforms that did not fall into a safe zone
\* (createRandomBlocks, createRandomRamps, createRandomPlatforms: "skipped" of each
\* kind did), and the two spawn platforms (createSpawnArea; kept nowhere either).
\* The level is 50 wide and its walls 3 high; a block, a ramp and a platform have
\* their smallest sizes.
levelDims(blockCount, skipped) ==
    LET blocks == Max(0, blockCount - skipped)
        ramps == Max(0, (blockCount \div 4) - skipped)
        platforms == Max(0, (blockCount \div 3) - skipped)
    IN  << <<>>, <<520, 30, 10>>, <<520, 30, 10>>, <<10, 30, 500>>, <<10, 30, 500>> >>
        \o [i \in 1..blocks |-> <<10, 10, 10>>]
        \o [i \in 1..ramps |-> <<20, 5, 30>>]
        \o [i \in 1..platforms |-> <<20, 5, 20>>]
        \o << <<80, 1, 80>>, <<80, 1, 80>> >>

staticBodies == 5

levelBodies(firstId, blockCount, skipped) ==
    LET dims == levelDims(blockCount, skipped)
    IN  [i \in DOMAIN dims |->
            IF i = 1 THEN groundBody(firstId)
            ELSE boxBody(firstId + i - 1, BoxOptions(TRUE, dims[i]))]

\* The blocks, ramps and platforms among them: what the level keeps in its lists.
levelObjects(made) == SubSeq(made, staticBodies + 1, Len(made) - 2)

\* generate(), as far as the physics goes: the bodies of the lists are removed, the
\* new ones are added through physics.createGround and physics.createBox.  (The new
\* bodies are new to the world, so adding them one by one appends them.)
generateBodies(phys, lv, made) ==
    LET cleared == clearLevelBodies(phys, lv)
    IN  Physics(cleared.world \o made, cleared.bodies \o made)

\* How many blocks, ramps and platforms a safe zone swallows.
Skipped == {0, 1}

MaxGenerations == 2

Generations == Cardinality({i \in DOMAIN createdBodies : createdBodies[i].shape = "plane"})

OffsetPatterns ==
    { [i \in 1..spawnPointCount |-> <<0, 0>>],
      [i \in 1..spawnPointCount |-> <<i - 3, 3 - i>>],
      [i \in 1..spawnPointCount |-> <<-3, 2>>] }

Teams == {"teamA", "teamB"}

Randoms == {0, 500, 999}

LevelUnchanged ==
    UNCHANGED <<fxVars, weaponVars, playerVars, hitVars, timerVars,
                contactSinceJump, tickLog, gm, inputController>>

\* level.generate(options)
Generate ==
    /\ Generations < MaxGenerations
    /\ \E options \in LevelOptions, offsetsA \in OffsetPatterns, offsetsB \in OffsetPatterns,
          skipped \in Skipped :
          LET generated == generate(level, options, offsetsA, offsetsB)
              made == levelBodies(NextBodyId, generated.blockCount, skipped)
          IN  /\ level' = [generated EXCEPT !.objects = levelObjects(made)]
              /\ SetPhysics(generateBodies(Phys, level, made))
              /\ createdBodies' = createdBodies \o made
              /\ op' = Op("generate", options, FALSE)
    /\ LevelUnchanged

\* level.clearLevel()
ClearLevel ==
    /\ level' = clearLevel(level)
    /\ SetPhysics(clearLevelBodies(Phys, level))
    /\ op' = Op("clearLevel", 0, FALSE)
    /\ UNCHANGED createdBodies
    /\ LevelUnchanged

\* level.getRandomSpawnPoint(team)
GetRandomSpawnPoint ==
    /\ \E team \in Teams, random \in Randoms :
          op' = Op("getRandomSpawnPoint", team, getRandomSpawnPoint(level, team, random))
    /\ UNCHANGED <<level, physVars>>
    /\ LevelUnchanged

(***************************************************************************)
(* GameManager: deferred callbacks, the kill feed, the player's death      *)
(*                                                                         *)
(* A timer's due time is in milliseconds; "now" is in ticks of 100 ms.     *)
(***************************************************************************)
Timer(kind, due, item) == [kind |-> kind, due |-> due, item |-> item]

\* setTimeout(callback, delay) at time t
setTimeout(ts, kind, delay, item, t) == Append(ts, Timer(kind, t * 100 + delay, item))

\* The state the deferred callbacks work on.
Game(ts, f, feed, count) == [timers |-> ts, faults |-> f, killFeed |-> feed, feedCount |-> count]

TheGame == Game(timers, faults, killFeed, feedCount)

SetGame(g) ==
    /\ timers' = g.timers
    /\ faults' = g.faults
    /\ killFeed' = g.killFeed
    /\ feedCount' = g.feedCount

\* new GameManager(scene): nothing initialized, not running, no player, no enemies.
\* killFeedElement is the element of the document with the id "kill-feed", or null
\* when the document has none, as index.html.
\* "physics" is the manager's own Physics (null until init(), which "initialized"
\* tells), "created" the number of bodies made in it, "enemies" the bodies of the
\* enemies of the list, "listeners" the number of calls of addEventListeners().
GmNew(hasKillFeed) ==
    [initialized |-> FALSE, isRunning |-> FALSE, isPaused |-> FALSE, listeners |-> 0,
     enemies |-> <<>>, projectiles |-> <<>>, physics |-> PhysicsNew, created |-> 0,
     lastSpawnTime |-> 0, killFeedElement |-> hasKillFeed]

\* addKillFeedMessage(message): nothing without a kill-feed element; with one, a new
\* item is appended to the feed and a timer is set to remove it after 5 seconds.
addKillFeedMessage(g, manager, t) ==
    LET item == g.feedCount + 1
    IN  IF ~manager.killFeedElement THEN g
        ELSE Game(setTimeout(g.timers, "killFeed", 5000, item, t), g.faults,
                  Append(g.killFeed, item), item)

\* handlePlayerDeath(), but for this.deaths++: the message, and the respawn timer of
\* 3 seconds.
handlePlayerDeath(g, manager, t) ==
    LET fed == addKillFeedMessage(g, manager, t)
    IN  [fed EXCEPT !.timers = setTimeout(fed.timers, "respawn", 3000, 0, t)]

\* The respawn callback: this.level.getRandomSpawnPoint('teamA') faults when init()
\* has not made the level; this.player.respawn(spawnPoint) faults as class Player has
\* no method respawn.  The player is left as it was.
PlayerHasRespawn == FALSE

respawnCallback(g, manager, lv, random) ==
    LET spawnPoint == getRandomSpawnPoint(lv, "teamA", random)
    IN  IF ~manager.initialized \/ spawnPoint.fault \/ ~PlayerHasRespawn
        THEN [g EXCEPT !.faults = g.faults + 1]
        ELSE g

\* The kill-feed callback: this.killFeedElement.removeChild(item) raises NotFoundError
\* when item is not a child of the element.
killFeedCallback(g, item) ==
    IF item \in Elements(g.killFeed)
    THEN [g EXCEPT !.killFeed = SpliceAt(g.killFeed, IndexOf(g.killFeed, item))]
    ELSE [g EXCEPT !.faults = g.faults + 1]

\* The timers that may run at time t: a due one with no earlier-due one pending.
DueTimers(ts, t) ==
    {i \in DOMAIN ts : ts[i].due <= t * 100 /\ \A j \in DOMAIN ts : ts[j].due >= ts[i].due}

\* The impact mark's callback, scene.remove(impact): removing what the scene does not
\* hold does nothing.
impactCallback(g) == g

\* ------------------------------------------------------------------------------
\* InputController: the weapon-cycle keys, the wheel and the switch delay.
\* ------------------------------------------------------------------------------

NoPress == -1

\* keys.nextWeapon, keys.previousWeapon and weaponSwitchDelay, with two history
\* fields: "accepted" counts the presses that set a key since the controller's last
\* update(), "lastAccepted" is the time of the last such press.
InputControllerNew ==
    [nextWeapon |-> FALSE, previousWeapon |-> FALSE, weaponSwitchDelay |-> FALSE,
     accepted |-> 0, lastAccepted |-> NoPress]

\* setWeaponSwitchDelay: the flag (its timer is set by the action)
setWeaponSwitchDelay(ic) == [ic EXCEPT !.weaponSwitchDelay = TRUE]

Accepted(ic, key, t) ==
    [setWeaponSwitchDelay(ic) EXCEPT ![key] = TRUE, !.accepted = ic.accepted + 1,
                                     !.lastAccepted = t]

\* onKeyDown, for KeyQ and KeyE
onKeyDown(ic, code, t) ==
    IF ic.weaponSwitchDelay THEN ic
    ELSE IF code = "KeyQ" THEN Accepted(ic, "previousWeapon", t)
    ELSE IF code = "KeyE" THEN Accepted(ic, "nextWeapon", t)
    ELSE ic

\* onKeyUp, for KeyQ and KeyE
onKeyUp(ic, code) ==
    IF code = "KeyQ" THEN [ic EXCEPT !.previousWeapon = FALSE]
    ELSE IF code = "KeyE" THEN [ic EXCEPT !.nextWeapon = FALSE]
    ELSE ic

\* onWheel: a wheel event with deltaY = 0 sets the delay and no key.
onWheel(ic, deltaY, t) ==
    IF ic.weaponSwitchDelay THEN ic
    ELSE IF deltaY > 0 THEN Accepted(ic, "nextWeapon", t)
    ELSE IF deltaY < 0 THEN Accepted(ic, "previousWeapon", t)
    ELSE setWeaponSwitchDelay(ic)

\* The callback of the delay's timer.
switchDelayCallback(ic) == [ic EXCEPT !.weaponSwitchDelay = FALSE]

\* InputController.update(): the one-frame keys are reset.
inputUpdate(ic) == [ic EXCEPT !.nextWeapon = FALSE, !.previousWeapon = FALSE, !.accepted = 0]

\* What Player.update reads of the controller.
inputOf(ic) ==
    [leftButton |-> FALSE, reload |-> FALSE, nextWeapon |-> ic.nextWeapon,
     previousWeapon |-> ic.previousWeapon, jump |-> FALSE, movementX |-> 0,
     movementY |-> 0]

switchDelay == 250

\* GameManager.reset(), as far as the feed goes: killFeedElement.innerHTML = '', which
\* faults when there is no such element.
gmReset(g, manager) ==
    IF manager.killFeedElement
    THEN [g EXCEPT !.killFeed = <<>>]
    ELSE [g EXCEPT !.faults = g.faults + 1]

\* GameManager.reset(), as far as the manager goes: the body of every enemy is removed
\* from the physics and the lists of enemies and projectiles are emptied (the
\* projectiles of the model have no body).
RECURSIVE removeBodies(_, _)
removeBodies(phys, bodies) ==
    IF bodies = <<>> THEN phys
    ELSE removeBodies(removeBody(phys, bodies[1]), Tail(bodies))

resetManager(manager) ==
    [manager EXCEPT !.physics = removeBodies(manager.physics, manager.enemies),
                    !.enemies = <<>>, !.projectiles = <<>>]

maxEnemies == 20
spawnRate == 3000

\* Date.now() at time t, in milliseconds: the page was loaded at PageLoadTime.
PageLoadTime == 10000
DateNow(t) == PageLoadTime + t * 100

\* spawnEnemy(): nothing at maxEnemies; otherwise one more enemy (with its box in the
\* manager's own physics world) at a teamB spawn point.
\* start(), pause(), resume() and stop(), as far as the flags go.
gmStart(manager) ==
    IF manager.isRunning THEN manager
    ELSE [manager EXCEPT !.isRunning = TRUE, !.isPaused = FALSE]

gmPause(manager) ==
    IF ~manager.isRunning \/ manager.isPaused THEN manager
    ELSE [manager EXCEPT !.isPaused = TRUE]

gmResume(manager) ==
    IF ~manager.isRunning \/ ~manager.isPaused THEN manager
    ELSE [manager EXCEPT !.isPaused = FALSE]

gmStop_keepsPause(manager) ==
    IF ~manager.isRunning THEN manager
    ELSE [manager EXCEPT !.isRunning = FALSE]

gmStop(manager) ==
    IF ~manager.isRunning THEN manager
    ELSE [manager EXCEPT !.isRunning = FALSE, !.isPaused = FALSE]

\* The listeners of addEventListeners: the keydown listener on Escape, and the
\* pointerlockchange listener, "locked" telling whether the canvas holds the lock.
onEscape(manager) ==
    IF manager.isRunning /\ ~manager.isPaused THEN gmPause(manager)
    ELSE IF manager.isRunning /\ manager.isPaused THEN gmResume(manager)
    ELSE manager

onPointerLockChange(manager, locked) ==
    IF locked
    THEN IF manager.isRunning /\ manager.isPaused THEN gmResume(manager) ELSE manager
    ELSE IF manager.isRunning /\ ~manager.isPaused THEN gmPause(manager) ELSE manager

\* An event is dispatched to the listeners installed, one after the other (a listener
\* that throws does not keep the next from running).
RECURSIVE dispatch(_, _, _, _)
dispatch(manager, count, event, locked) ==
    IF count = 0 THEN manager
    ELSE dispatch(IF event = "Escape" THEN onEscape(manager)
                  ELSE onPointerLockChange(manager, locked),
                  count - 1, event, locked)

\* The box of an enemy: size (0.5, 1, 0.5), in tenths.
enemyBox == BoxOptions(TRUE, <<5, 10, 5>>)

enemyBody(id) == boxBody(id, enemyBox)

spawnEnemy_noCap(manager) ==
    [manager EXCEPT !.physics = createBox(manager.physics, manager.created + 1, enemyBox),
                    !.created = manager.created + 1,
                    !.enemies = Append(manager.enemies, enemyBody(manager.created + 1))]

\* spawnEnemy(): nothing at maxEnemies; otherwise a body is made in the physics and
\* the enemy pushed.
spawnEnemy(manager) ==
    IF Len(manager.enemies) >= maxEnemies THEN manager
    ELSE [manager EXCEPT !.physics = createBox(manager.physics, manager.created + 1, enemyBox),
                         !.created = manager.created + 1,
                         !.enemies = Append(manager.enemies, enemyBody(manager.created + 1))]

\* handleEnemyDeath(enemy, weapon), as far as the list goes: an enemy of the list is
\* taken out of it and its body out of the physics.
handleEnemyDeath(manager, enemy) ==
    LET index == IndexOf(manager.enemies, enemy)
    IN  IF index # -1
        THEN [manager EXCEPT !.physics = removeBody(manager.physics, enemy),
                             !.enemies = SpliceAt(manager.enemies, index)]
        ELSE manager

\* A projectile of the list: shouldRemove, and whether its next update(deltaTime) sets
\* shouldRemove (the class of the projectiles is not part of the source).
Projectile(id, shouldRemove, expiring) ==
    [id |-> id, shouldRemove |-> shouldRemove, expiring |-> expiring]

\* The loop "this.projectiles.forEach((projectile, index) => ...)": forEach visits the
\* indices 0 .. length - 1 of the array as it is when the index comes up, the length
\* taken before the loop; an index the array no longer has is passed over.  The
\* projectile is updated and, when shouldRemove is set, spliced out at its index.
\* "updated" lists the projectiles whose update was called.
RECURSIVE forEachProjectile(_, _, _, _)
forEachProjectile(projectiles, index, length, updated) ==
    IF index >= length THEN [projectiles |-> projectiles, updated |-> updated]
    ELSE IF index >= Len(projectiles)
    THEN forEachProjectile(projectiles, index + 1, length, updated)
    ELSE LET projectile == projectiles[index + 1]
             after == [projectile EXCEPT
                          !.shouldRemove = projectile.shouldRemove \/ projectile.expiring]
         IN  forEachProjectile(IF after.shouldRemove
                               THEN SpliceAt(projectiles, index)
                               ELSE [projectiles EXCEPT ![index + 1] = after],
                               index + 1, length, Append(updated, projectile.id))

\* What one call of GameManager.update does, in its order.
Updated(manager, log, fault, projectilesUpdated) ==
    [manager |-> manager, log |-> log, fault |-> fault,
     projectilesUpdated |-> projectilesUpdated]

\* GameManager.update(deltaTime): nothing unless running and not paused; then the
\* manager's physics step (a fault without init(), this.physics being null), the
\* player's update when there is a player (there never is: createPlayer faults), every
\* enemy's update, the loop over the projectiles, and a spawn when spawnRate has
\* passed since the last one.
gmUpdate(manager, t) ==
    IF ~manager.isRunning \/ manager.isPaused THEN Updated(manager, <<>>, FALSE, <<>>)
    ELSE IF ~manager.initialized THEN Updated(manager, <<>>, TRUE, <<>>)
    ELSE LET looped == forEachProjectile(manager.projectiles, 0,
                                         Len(manager.projectiles), <<>>)
             kept == [manager EXCEPT !.projectiles = looped.projectiles]
         IN  Updated(IF DateNow(t) - manager.lastSpawnTime > spawnRate
                     THEN [spawnEnemy(kept) EXCEPT !.lastSpawnTime = DateNow(t)]
                     ELSE kept,
                     <<"physics.update">>
                         \o [i \in 1..Len(manager.enemies) |-> "enemy.update"]
                         \o [i \in 1..Len(looped.updated) |-> "projectile.update"],
                     FALSE, looped.updated)

\* One pass of animate() after the game was started, in its order: the physics step,
\* Player.update, which ends with the effects manager's update, and
\* GameManager.update.
animateLog(managerLog) ==
    <<"physics.update", "player.update", "effects.update">> \o managerLog

GameSteps == {10, 30}
MaxGameTime == 90
MaxTimers == 3
MaxMessages == 2
MaxFaults == 2

GameInitIn(hasKillFeed) ==
    /\ timers = <<>>
    /\ faults = 0
    /\ killFeed = <<>>
    /\ feedCount = 0
    /\ level = LevelNew
    /\ contactSinceJump = FALSE
    /\ tickLog = <<>>
    /\ gm = GmNew(hasKillFeed)
    /\ inputController = InputControllerNew

\* The game manager in the document of index.html.
GameInit == GameInitIn(FALSE)

GameUnchanged ==
    UNCHANGED <<fxVars, weapons, reloadLog, currentWeaponIndex, weaponContainer, canJump,
                onGround, currentLookVertical, rotationY, cameraRotationX, hitVars,
                physVars, contactSinceJump, tickLog, inputController>>

\* Time passes between the passes of animate().
GameTick ==
    /\ \E d \in GameSteps :
          /\ now + d <= MaxGameTime
          /\ now' = now + d
          /\ op' = Op("tick", d, FALSE)
    /\ UNCHANGED <<timerVars, level, gm, health, deaths>>
    /\ GameUnchanged

\* gameManager.handlePlayerDeath()
HandlePlayerDeath ==
    /\ Len(timers) + 2 <= MaxTimers
    /\ feedCount < MaxMessages
    /\ faults < MaxFaults
    /\ SetGame(handlePlayerDeath(TheGame, gm, now))
    /\ deaths' = deaths + 1
    /\ op' = Op("handlePlayerDeath", 0, FALSE)
    /\ UNCHANGED <<now, level, gm, health>>
    /\ GameUnchanged

\* gameManager.addKillFeedMessage(message)
AddKillFeedMessage ==
    /\ Len(timers) < MaxTimers
    /\ feedCount < MaxMessages
    /\ SetGame(addKillFeedMessage(TheGame, gm, now))
    /\ op' = Op("addKillFeedMessage", 0, FALSE)
    /\ UNCHANGED <<now, level, gm, health, deaths>>
    /\ GameUnchanged

\* gameManager.reset(): the player is null, the enemies and the statistics are
\* cleared, the kill feed is emptied.
GameResetWithin(maxFaults) ==
    /\ faults < maxFaults
    /\ SetGame(gmReset(TheGame, gm))
    /\ gm' = resetManager(gm)
    /\ deaths' = 0
    /\ op' = Op("reset", 0, ~gm.killFeedElement)
    /\ UNCHANGED <<now, level, health>>
    /\ GameUnchanged

GameReset == GameResetWithin(MaxFaults)

\* A due timer runs its callback.  The operation records the timer, whether the
\* callback faulted and whether its item was in the feed.
RunTimer ==
    /\ \E i \in DueTimers(timers, now), random \in Randoms :
          LET timer == timers[i]
              rest == Game(SpliceAt(timers, i - 1), faults, killFeed, feedCount)
              after == IF timer.kind = "respawn"
                       THEN respawnCallback(rest, gm, level, random)
                       ELSE IF timer.kind = "killFeed"
                            THEN killFeedCallback(rest, timer.item)
                            ELSE impactCallback(rest)
          IN  /\ SetGame(after)
              /\ op' = Op("timer", [timer |-> timer,
                                    present |-> timer.item \in Elements(killFeed)],
                          after.faults > faults)
    /\ UNCHANGED <<now, level, gm, health, deaths>>
    /\ GameUnchanged

\* The player is hit (Player.takeDamage), in the game specification.
GameTakeDamage ==
    /\ health > 0
    /\ health' = health - 50
    /\ op' = Op("takeDamage", 50, FALSE)
    /\ UNCHANGED <<now, timerVars, level, gm, deaths>>
    /\ GameUnchanged

(***************************************************************************)
(* Player                                                                  *)
(***************************************************************************)
lookVerticalMax == 1257
lookVerticalMin == -1257

\* Player.initializeWeapons: assault rifle, shotgun, sniper rifle, combat knife and
\* fire axe, in this order.
PlayerWeapons ==
    << RangedWeapon(WithDamage(RangedParams(1, 30, 30, 90, 20), 20, 1000)),
       RangedWeapon(WithDamage(RangedParams(8, 8, 8, 24, 25), 80, 200)),
       RangedWeapon(WithDamage(RangedParams(12, 5, 5, 15, 30), 120, 2000)),
       MeleeWeapon(WithDamage(MeleeParams(5, 0), 40, 20)),
       MeleeWeapon(WithDamage(MeleeParams(12, 0), 75, 25)) >>

\* The equipped weapon as the pair the player keeps: the index and the children of
\* the weapon container.
Equipped(index, container, ret) == [index |-> index, container |-> container, ret |-> ret]

\* A variant of equipWeapon that leaves the previous weapon's model in the container;
\* C13 tells it from equipWeapon.
equipWeapon_keepsModel(count, eq, index) ==
    IF index < 0 \/ index >= count THEN Equipped(eq.index, eq.container, FALSE)
    ELSE Equipped(index, Append(eq.container, index), TRUE)

\* Player.equipWeapon
equipWeapon(count, eq, index) ==
    IF index < 0 \/ index >= count THEN Equipped(eq.index, eq.container, FALSE)
    ELSE Equipped(index, <<index>>, TRUE)

\* A variant of nextWeapon that does not wrap; C14 tells it from nextWeapon.
nextWeapon_noWrap(count, eq) ==
    IF count <= 1 THEN Equipped(eq.index, eq.container, FALSE)
    ELSE equipWeapon(count, eq, eq.index + 1)

\* Player.nextWeapon
nextWeapon(count, eq) ==
    IF count <= 1 THEN Equipped(eq.index, eq.container, FALSE)
    ELSE equipWeapon(count, eq, (eq.index + 1) % count)

\* Player.previousWeapon
previousWeapon(count, eq) ==
    IF count <= 1 THEN Equipped(eq.index, eq.container, FALSE)
    ELSE equipWeapon(count, eq, (eq.index - 1 + count) % count)

\* k calls of Player.nextWeapon one after the other.
RECURSIVE NextWeaponTimes(_, _, _)
NextWeaponTimes(count, eq, k) ==
    IF k = 0 THEN eq ELSE NextWeaponTimes(count, nextWeapon(count, eq), k - 1)

\* The three angles Player.updateLook works on.
Look(yaw, vertical, camera) ==
    [rotationY |-> yaw, currentLookVertical |-> vertical, cameraRotationX |-> camera]

\* delta * rotationSpeed (1.5) * deltaTime, with delta in thousandths, deltaTime in
\* ticks and the product in milliradians.
Turn(delta, deltaTime) == (delta * 15 * deltaTime) \div 100

\* A variant of updateLook that clamps the pitch from above only; C12 tells it from
\* updateLook.
updateLook_noLowerClamp(look, deltaX, deltaY, deltaTime) ==
    LET yaw == IF deltaX # 0 THEN look.rotationY - Turn(deltaX, deltaTime)
               ELSE look.rotationY
        sum == look.currentLookVertical + Turn(deltaY, deltaTime)
        clamped == IF sum > lookVerticalMax THEN lookVerticalMax ELSE sum
    IN  IF deltaY # 0 THEN Look(yaw, clamped, clamped)
        ELSE Look(yaw, look.currentLookVertical, look.cameraRotationX)

\* Player.updateLook: a horizontal delta turns the player body; a vertical delta is
\* added to currentLookVertical, the sum is clamped to
\* [lookVerticalMin, lookVerticalMax] and assigned to the camera.
updateLook(look, deltaX, deltaY, deltaTime) ==
    LET yaw == IF deltaX # 0 THEN look.rotationY - Turn(deltaX, deltaTime)
               ELSE look.rotationY
        sum == look.currentLookVertical + Turn(deltaY, deltaTime)
        clamped == IF sum < lookVerticalMin THEN lookVerticalMin
                   ELSE IF sum > lookVerticalMax THEN lookVerticalMax
                   ELSE sum
    IN  IF deltaY # 0 THEN Look(yaw, clamped, clamped)
        ELSE Look(yaw, look.currentLookVertical, look.cameraRotationX)

\* Player.useWeapon on the current weapon
useWeapon(w, t) == use(w, t)

\* Player.handleWeaponHit: a hit on an enemy makes a blood impact of intensity
\* damage / 100, or min(1.0, 1.5 * damage / 100) when the hit is marked critical; a
\* hit on anything else leaves the effects manager alone.
hitIntensity(hit) ==
    IF hit.critical THEN Min(1000, hit.damage * 15) ELSE hit.damage * 10

handleWeaponHit(fx, hit) ==
    IF hit.isEnemy THEN createBloodImpact(fx, hitIntensity(hit)) ELSE fx

\* The effects manager after the hit callbacks of one useWeapon call (there is at
\* most one).
AfterHits(fx, reports) ==
    IF reports = <<>> THEN fx ELSE handleWeaponHit(fx, reports[1])

\* What stands in front of the player: an enemy on the centre ray at distance 2.0 and
\* a wall on an arc ray at distance 50.
PlayerScene == {SceneObject(0, 20, TRUE), SceneObject(3, 500, FALSE)}

\* Player.reloadWeapon on the current weapon
reloadWeapon(w) == IF w.type = "ranged" THEN reload(w) ELSE Result(w, FALSE)

\* Bounds of the player specification.
MaxPlayTime == 50
FrameDts == {10, 20}
DamageAmounts == {10, 40}
MaxOverkill == 40
MaxYaw == 1300
LookDts == {10}

\* The inputs of a frame: the state of the InputController when Player.update reads it.
CombatInputs ==
    [leftButton : BOOLEAN, reload : BOOLEAN, nextWeapon : BOOLEAN,
     previousWeapon : BOOLEAN, jump : {FALSE}, movementX : {0}, movementY : {0}]

BodyInputs ==
    [leftButton : {FALSE}, reload : {FALSE}, nextWeapon : {FALSE},
     previousWeapon : {FALSE}, jump : BOOLEAN, movementX : {0}, movementY : {0}]

\* Mouse movements, in thousandths.
LookDeltas == {-400, 0, 400}

LookInputs ==
    [leftButton : {FALSE}, reload : {FALSE}, nextWeapon : {FALSE},
     previousWeapon : {FALSE}, jump : {FALSE}, movementX : LookDeltas,
     movementY : LookDeltas]

PlayerInit ==
    /\ weapons = PlayerWeapons
    /\ reloadLog = [i \in DOMAIN PlayerWeapons |-> NoReload]
    /\ now = 0
    /\ currentWeaponIndex = 0
    /\ weaponContainer = <<0>>
    /\ health = 100
    /\ canJump = TRUE
    /\ onGround = FALSE
    /\ currentLookVertical = 0
    /\ rotationY = 0
    /\ cameraRotationX = 0
    /\ deaths = 0
    /\ sceneObjects = PlayerScene
    /\ hitReports = <<>>
    /\ PlayerPhysicsInit

\* Player.update(input, deltaTime), in the order of the source: jump, look, use,
\* reload, update of the current weapon, weapon switching, effects update.
jumpApplies_ignoresGround(jump, mayJump, grounded) == jump /\ mayJump

\* The test of the jump in Player.update.
jumpApplies(jump, mayJump, grounded) == jump /\ mayJump /\ grounded

PlayerUpdate(input, deltaTime, t) ==
    LET jumps == jumpApplies(input.jump, canJump, onGround)
        i == currentWeaponIndex + 1
        w == weapons[i]
        used == IF input.leftButton THEN useWeapon(w, t).weapon ELSE w
        reports == IF input.leftButton THEN hitCallbacks(w, t, sceneObjects) ELSE <<>>
        reloaded == IF input.reload THEN reloadWeapon(used).weapon ELSE used
        updated == update(reloaded, deltaTime)
        eq0 == Equipped(currentWeaponIndex, weaponContainer, FALSE)
        eq1 == IF input.nextWeapon THEN nextWeapon(Len(weapons), eq0) ELSE eq0
        eq2 == IF input.previousWeapon THEN previousWeapon(Len(weapons), eq1) ELSE eq1
        look == updateLook(Look(rotationY, currentLookVertical, cameraRotationX),
                           input.movementX, input.movementY, deltaTime)
    IN  /\ canJump' = IF jumps THEN FALSE ELSE canJump
        /\ onGround' = IF jumps THEN FALSE ELSE onGround
        /\ rotationY' = look.rotationY
        /\ currentLookVertical' = look.currentLookVertical
        /\ cameraRotationX' = look.cameraRotationX
        /\ weapons' = [weapons EXCEPT ![i] = updated]
        /\ reloadLog' =
               [k \in DOMAIN weapons |->
                   IF k = i
                   THEN LogAfter(reloadLog[k], w, reloaded, deltaTime,
                                 IF used.isReloading THEN "use" ELSE "reload")
                   ELSE LogAfter(reloadLog[k], weapons[k], weapons[k], deltaTime, "none")]
        /\ currentWeaponIndex' = eq2.index
        /\ weaponContainer' = eq2.container
        /\ hitReports' = hitReports \o reports
        /\ SetFx(fxUpdate(AfterHits(Fx, reports), deltaTime))
        /\ contactSinceJump' = IF jumps THEN FALSE ELSE contactSinceJump
        /\ op' = Op("update", deltaTime, jumps)
        /\ UNCHANGED <<fxCalls, fxUpdates, health, deaths, sceneObjects, physVars,
                       timers, killFeed, feedCount, level>>

\* One pass of animate() in main.js: deltaTime is the time since the last pass.  The
\* player's update is followed by the game manager's and the input controller's.
FrameOf(inputs, deltaTimes) ==
    \E deltaTime \in deltaTimes, input \in inputs :
        LET updated == gmUpdate(gm, now + deltaTime)
        IN  /\ now + deltaTime <= MaxPlayTime
            /\ now' = now + deltaTime
            /\ PlayerUpdate(input, deltaTime, now + deltaTime)
            /\ gm' = updated.manager
            /\ faults' = IF updated.fault THEN faults + 1 ELSE faults
            /\ tickLog' = animateLog(updated.log)
            /\ inputController' = inputUpdate(inputController)

Frame(inputs) == FrameOf(inputs, FrameDts)

\* A frame in which the player fires, reloads and switches weapons.
CombatFrame == Frame(CombatInputs)

\* A frame in which the player only moves.
BodyFrame == Frame(BodyInputs)

\* The inputs of the tick specification: nothing pressed, or the trigger.
TickInputs ==
    [leftButton : BOOLEAN, reload : {FALSE}, nextWeapon : {FALSE},
     previousWeapon : {FALSE}, jump : {FALSE}, movementX : {0}, movementY : {0}]

TickFrame == Frame(TickInputs)

TickUnchanged ==
    UNCHANGED <<fxVars, weaponVars, playerVars, hitVars, physVars, timers, killFeed,
                feedCount, contactSinceJump, tickLog, inputController>>

\* gameManager.init(): the physics and the level are made and the level generated;
\* createPlayer then faults (it hands the camera to Player as its physics), so the
\* manager has no player and the rest of init() is not run.
GmInitialize ==
    /\ faults < MaxFaults
    /\ \E offsetsA \in OffsetPatterns, offsetsB \in OffsetPatterns :
          level' = generate(LevelNew,
                            [teamASpawnPoint |-> NoPoint, teamBSpawnPoint |-> NoPoint,
                             blockCount |-> 25],
                            offsetsA, offsetsB)
    /\ gm' = [gm EXCEPT !.initialized = TRUE, !.physics = PhysicsNew]
    /\ faults' = faults + 1
    /\ op' = Op("init", 0, TRUE)
    /\ TickUnchanged

\* gameManager.start(): nothing when running; otherwise isRunning is set, isPaused
\* cleared, and the call faults at the elements "game-ui" and "game-menu", which the
\* document does not have.
GmStart ==
    /\ ~gm.isRunning
    /\ gm' = gmStart(gm)
    /\ faults' = faults + 1
    /\ op' = Op("start", 0, TRUE)
    /\ UNCHANGED level
    /\ TickUnchanged

\* ---- running, pausing and stopping the game ----

MaxRunFaults == 5
MaxListeners == 2

\* A call of the manager that changes its flags; the call then faults at an element
\* the document does not have ("pause-menu", "game-ui").
RunCall(name, after) ==
    /\ after # gm
    /\ faults < MaxRunFaults
    /\ gm' = after
    /\ faults' = faults + 1
    /\ op' = Op(name, 0, TRUE)
    /\ UNCHANGED level
    /\ TickUnchanged

RunStart == faults < MaxRunFaults /\ GmStart

\* A pass of animate() with nothing pressed.
RunFrame == FrameOf({inputOf(inputController)}, FrameDts)

GmPause == RunCall("pause", gmPause(gm))

GmResume == RunCall("resume", gmResume(gm))

GmStop == RunCall("stop", gmStop(gm))

\* gameManager.addEventListeners() called (init() does not get to its call).
AddEventListeners ==
    /\ gm.listeners < MaxListeners
    /\ gm' = [gm EXCEPT !.listeners = gm.listeners + 1]
    /\ op' = Op("addEventListeners", 0, FALSE)
    /\ UNCHANGED <<level, faults>>
    /\ TickUnchanged

\* The Escape key is pressed: every keydown listener installed runs.
EscapeKey ==
    /\ gm.listeners > 0
    /\ RunCall("Escape", dispatch(gm, gm.listeners, "Escape", FALSE))

\* The pointer lock is taken or lost: every pointerlockchange listener installed runs.
PointerLockChange ==
    /\ gm.listeners > 0
    /\ \E locked \in BOOLEAN :
          RunCall("pointerlockchange", dispatch(gm, gm.listeners, "pointerlockchange", locked))

\* ---- the input controller's events ----

MaxInputTime == 8
InputDts == {1, 2}
KeyCodes == {"KeyQ", "KeyE"}
WheelDeltas == {-100, 0, 100}

InputUnchanged ==
    UNCHANGED <<fxVars, weaponVars, playerVars, hitVars, physVars, faults, killFeed,
                feedCount, level, contactSinceJump, tickLog, gm>>

\* The timer of setWeaponSwitchDelay is set when the press set the delay.
DelayTimers(before, after) ==
    IF after.weaponSwitchDelay /\ ~before.weaponSwitchDelay
    THEN setTimeout(timers, "switchDelay", switchDelay, 0, now)
    ELSE timers

KeyDown ==
    /\ \E code \in KeyCodes :
          LET after == onKeyDown(inputController, code, now)
          IN  /\ inputController' = after
              /\ timers' = DelayTimers(inputController, after)
              /\ op' = Op("keydown", code, after.accepted > inputController.accepted)
    /\ InputUnchanged

KeyUp ==
    /\ \E code \in KeyCodes :
          /\ inputController' = onKeyUp(inputController, code)
          /\ op' = Op("keyup", code, FALSE)
    /\ UNCHANGED timers
    /\ InputUnchanged

Wheel ==
    /\ \E deltaY \in WheelDeltas :
          LET after == onWheel(inputController, deltaY, now)
          IN  /\ inputController' = after
              /\ timers' = DelayTimers(inputController, after)
              /\ op' = Op("wheel", deltaY, after.accepted > inputController.accepted)
    /\ InputUnchanged

\* The delay's timer runs, once it is due.
SwitchDelayTimer ==
    /\ \E i \in DueTimers(timers, now) :
          /\ timers[i].kind = "switchDelay"
          /\ timers' = SpliceAt(timers, i - 1)
          /\ inputController' = switchDelayCallback(inputController)
          /\ op' = Op("timer", [timer |-> timers[i], present |-> FALSE], FALSE)
    /\ InputUnchanged

\* A pass of animate() with the controller as the events have left it.
InputFrame ==
    /\ now < MaxInputTime
    /\ FrameOf({inputOf(inputController)}, InputDts)

\* ---- the enemies ----

MaxSpawns == 22

\* gameManager.spawnEnemy() called on its own, in an initialized game.
SpawnEnemy ==
    /\ gm.initialized
    /\ gm.created < MaxSpawns
    /\ gm' = spawnEnemy(gm)
    /\ op' = Op("spawnEnemy", 0, Len(gm.enemies) < maxEnemies)
    /\ UNCHANGED <<level, faults>>
    /\ TickUnchanged

\* The enemies that die: the oldest of the list, and one that is not (or no longer)
\* in it.
Victims(manager) ==
    {enemyBody(0)} \cup (IF manager.enemies = <<>> THEN {} ELSE {manager.enemies[1]})

\* gameManager.handleEnemyDeath(enemy, weapon); the document has no kill feed, so the
\* message is not shown.
EnemyDeath ==
    /\ \E enemy \in Victims(gm) :
          /\ gm' = handleEnemyDeath(gm, enemy)
          /\ op' = Op("handleEnemyDeath", enemy, enemy \in Elements(gm.enemies))
    /\ SetGame(addKillFeedMessage(TheGame, gm, now))
    /\ UNCHANGED level
    /\ UNCHANGED <<fxVars, weaponVars, playerVars, hitVars, physVars,
                   contactSinceJump, tickLog, inputController>>

MaxEnemyFaults == 3
EnemyDts == {40}

\* gameManager.reset() in the course of a game.
EnemiesReset == GameResetWithin(MaxEnemyFaults)

\* A pass of animate() 4 s after the last one, with nothing pressed: the time between
\* two spawns has passed.
EnemiesFrame == FrameOf({inputOf(inputController)}, EnemyDts)

\* gameManager.update(deltaTime) called on its own.
GmUpdate ==
    /\ LET updated == gmUpdate(gm, now)
       IN  /\ updated.fault => faults < MaxFaults
           /\ gm' = updated.manager
           /\ faults' = IF updated.fault THEN faults + 1 ELSE faults
           /\ tickLog' = updated.log
           /\ UNCHANGED inputController
           /\ op' = Op("gmUpdate", 0, updated.projectilesUpdated)
    /\ UNCHANGED <<fxVars, weaponVars, playerVars, hitVars, physVars, timers, killFeed,
                   feedCount, level, contactSinceJump>>

MaxProjectiles == 3

\* A projectile is put into the manager's list.
AddProjectile ==
    /\ Len(gm.projectiles) < MaxProjectiles
    /\ \E id \in 1..MaxProjectiles, expiring \in BOOLEAN :
          /\ \A i \in DOMAIN gm.projectiles : gm.projectiles[i].id < id
          /\ gm' = [gm EXCEPT !.projectiles = Append(@, Projectile(id, FALSE, expiring))]
          /\ op' = Op("addProjectile", id, FALSE)
    /\ UNCHANGED <<level, faults>>
    /\ TickUnchanged

\* Player.takeDamage: the health is lowered; at health <= 0 a line is logged.
TakeDamage ==
    /\ health > -MaxOverkill
    /\ \E amount \in DamageAmounts :
          /\ health' = health - amount
          /\ op' = Op("takeDamage", amount, FALSE)
    /\ UNCHANGED <<fxVars, weaponVars, currentWeaponIndex, weaponContainer, canJump,
                   onGround, currentLookVertical, rotationY, cameraRotationX, deaths, hitVars, physVars, gameVars>>

\* Player.handleCollision: a contact whose normal points up (ni.y > 0.5) puts the
\* player on the ground.
HandleCollision ==
    /\ \E up \in BOOLEAN :
          /\ onGround' = IF up THEN TRUE ELSE onGround
          /\ canJump' = IF up THEN TRUE ELSE canJump
          /\ contactSinceJump' = IF up THEN TRUE ELSE contactSinceJump
          /\ op' = Op("handleCollision", 0, up)
    /\ UNCHANGED <<fxVars, weaponVars, currentWeaponIndex, weaponContainer, health,
                   currentLookVertical, rotationY, cameraRotationX, deaths, hitVars,
                   physVars, timerVars, level, tickLog, gm, inputController>>

\* A frame in which the player only looks around.
LookFrame == Frame(LookInputs)

\* Player.updateLook called on its own, with the frame time of a 1 s frame.  The
\* body's turn is kept within MaxYaw.
UpdateLook ==
    /\ \E deltaX \in LookDeltas, deltaY \in LookDeltas, deltaTime \in LookDts :
          LET look == updateLook(Look(rotationY, currentLookVertical, cameraRotationX),
                                 deltaX, deltaY, deltaTime)
          IN  /\ look.rotationY <= MaxYaw
              /\ look.rotationY >= -MaxYaw
              /\ rotationY' = look.rotationY
              /\ currentLookVertical' = look.currentLookVertical
              /\ cameraRotationX' = look.cameraRotationX
              /\ op' = Op("updateLook", <<deltaX, deltaY>>, FALSE)
    /\ UNCHANGED <<fxVars, weaponVars, currentWeaponIndex, weaponContainer, health,
                   canJump, onGround, deaths, hitVars, physVars, gameVars>>

\* Bounds of the inventory specification.
MaxWeapons == 6
InventorySizes == {1, 2, 5}

\* The player's inventory: the first n weapons of initializeWeapons, the first of
\* them equipped (the constructor makes n = 5).
InventoryInit ==
    /\ \E n \in InventorySizes :
          /\ weapons = SubSeq(PlayerWeapons, 1, n)
          /\ reloadLog = [i \in 1..n |-> NoReload]
    /\ now = 0
    /\ currentWeaponIndex = 0
    /\ weaponContainer = <<0>>
    /\ health = 100
    /\ canJump = TRUE
    /\ onGround = FALSE
    /\ currentLookVertical = 0
    /\ rotationY = 0
    /\ cameraRotationX = 0
    /\ deaths = 0
    /\ sceneObjects = PlayerScene
    /\ hitReports = <<>>
    /\ PlayerPhysicsInit

\* What the inventory calls leave alone.
InventoryUnchanged ==
    UNCHANGED <<fxVars, now, health, canJump, onGround, currentLookVertical, rotationY,
                cameraRotationX, deaths, hitVars, physVars, gameVars>>

\* Player.addWeapon: the weapon is pushed and its index returned.
AddWeapon ==
    /\ Len(weapons) < MaxWeapons
    /\ \E w \in {RangedWeapon(RangedParams(0, 0, 0, 0, 0)), MeleeWeapon(MeleeParams(0, 0))} :
          /\ weapons' = Append(weapons, w)
          /\ reloadLog' = Append(reloadLog, NoReload)
          /\ op' = Op("addWeapon", w.type, Len(weapons))
    /\ UNCHANGED <<currentWeaponIndex, weaponContainer>>
    /\ InventoryUnchanged

\* Player.equipWeapon(index), with indices below, within and above the inventory.
CallEquipWeapon ==
    /\ \E index \in -1..MaxWeapons :
          LET eq == equipWeapon(Len(weapons),
                                Equipped(currentWeaponIndex, weaponContainer, FALSE), index)
          IN  /\ currentWeaponIndex' = eq.index
              /\ weaponContainer' = eq.container
              /\ op' = Op("equipWeapon", index, eq.ret)
    /\ UNCHANGED <<weapons, reloadLog>>
    /\ InventoryUnchanged

\* Player.nextWeapon()
CallNextWeapon ==
    /\ LET eq == nextWeapon(Len(weapons),
                            Equipped(currentWeaponIndex, weaponContainer, FALSE))
       IN  /\ currentWeaponIndex' = eq.index
           /\ weaponContainer' = eq.container
           /\ op' = Op("nextWeapon", 0, eq.ret)
    /\ UNCHANGED <<weapons, reloadLog>>
    /\ InventoryUnchanged

\* Player.previousWeapon()
CallPreviousWeapon ==
    /\ LET eq == previousWeapon(Len(weapons),
                                Equipped(currentWeaponIndex, weaponContainer, FALSE))
       IN  /\ currentWeaponIndex' = eq.index
           /\ weaponContainer' = eq.container
           /\ op' = Op("previousWeapon", 0, eq.ret)
    /\ UNCHANGED <<weapons, reloadLog>>
    /\ InventoryUnchanged

\* The hits reported to player.handleWeaponHit(hit): by any of the player's weapons,
\* critical or not, at distance 0 or 10, on an enemy or on a wall.
HitDistances == {0, 100}

WeaponHit(w, critical, distance, isEnemy) ==
    [ray |-> 0, distance |-> distance, isEnemy |-> isEnemy,
     damage |-> calculateDamage(w, [critical |-> critical, distance |-> distance]),
     critical |-> critical]

\* player.handleWeaponHit(hit): a blood impact for a hit on an enemy; for any other
\* hit createImpactEffect, which adds a mark to the scene and sets a timer of 10
\* seconds to remove it.
HandleWeaponHit ==
    /\ fxCalls < MaxFxCalls
    /\ \E i \in DOMAIN weapons, critical \in BOOLEAN, distance \in HitDistances,
          isEnemy \in BOOLEAN :
          LET hit == WeaponHit(weapons[i], critical, distance, isEnemy)
          IN  /\ SetFx(handleWeaponHit(Fx, hit))
              /\ timers' = IF isEnemy THEN timers
                           ELSE setTimeout(timers, "impact", 10000, 0, now)
              /\ op' = Op("handleWeaponHit", hit, FALSE)
    /\ fxCalls' = fxCalls + 1
    /\ UNCHANGED <<fxUpdates, weaponVars, playerVars, hitVars, physVars, faults, killFeed,
                   feedCount, level, contactSinceJump, tickLog, gm, inputController>>

\* The marks of createImpactEffect that are in the scene: each is there until its
\* timer has run.
liveMarks == Cardinality({i \in DOMAIN timers : timers[i].kind = "impact"})

MaxMarkTime == 110

\* The trigger of the assault rifle held against a wall 10 away: a shot every 0.1 s,
\* each reported to player.handleWeaponHit as a hit on the wall.
HoldTrigger ==
    /\ now < MaxMarkTime
    /\ now' = now + 1
    /\ LET hit == WeaponHit(weapons[1], FALSE, 100, FALSE)
       IN  /\ SetFx(handleWeaponHit(Fx, hit))
           /\ timers' = setTimeout(timers, "impact", 10000, 0, now + 1)
           /\ op' = Op("handleWeaponHit", hit, FALSE)
    /\ UNCHANGED <<fxCalls, fxUpdates, weapons, reloadLog, playerVars, hitVars, physVars,
                   faults, killFeed, feedCount, level, contactSinceJump, tickLog, gm, inputController>>

(***************************************************************************)
(* Specifications                                                          *)
(***************************************************************************)

\* The effects manager alone, from "new EffectsManager(scene)".
InitFx ==
    /\ FxInit
    /\ PlayerInit
    /\ GameInit
    /\ op = Op("init", 0, FALSE)

NextFx ==
    \/ CreateBloodParticles
    \/ CreateBloodSplatter
    \/ CreateBloodImpact
    \/ ParticleRun
    \/ SplatterRun
    \/ FxUpdate
    \/ ClearAllEffects

SpecFx == InitFx /\ [][NextFx]_vars

\* One weapon alone, from "new RangedWeapon(params)" or "new MeleeWeapon(params)".
InitWeapon ==
    /\ FxInit
    /\ WeaponInit
    /\ currentWeaponIndex = 0
    /\ weaponContainer = <<>>
    /\ health = 100
    /\ canJump = TRUE
    /\ onGround = FALSE
    /\ currentLookVertical = 0
    /\ rotationY = 0
    /\ cameraRotationX = 0
    /\ deaths = 0
    /\ sceneObjects = {}
    /\ hitReports = <<>>
    /\ PhysicsInit
    /\ GameInit
    /\ op = Op("init", 0, FALSE)

NextWeapon ==
    \/ Tick
    \/ Use
    \/ Reload
    \/ Update

SpecWeapon == InitWeapon /\ [][NextWeapon]_vars

\* calculateDamage on one weapon, from "new RangedWeapon(params)" or
\* "new MeleeWeapon(params)".
InitDamage ==
    /\ FxInit
    /\ DamageInit
    /\ currentWeaponIndex = 0
    /\ weaponContainer = <<>>
    /\ health = 100
    /\ canJump = TRUE
    /\ onGround = FALSE
    /\ currentLookVertical = 0
    /\ rotationY = 0
    /\ cameraRotationX = 0
    /\ deaths = 0
    /\ sceneObjects = {}
    /\ hitReports = <<>>
    /\ PhysicsInit
    /\ GameInit
    /\ op = Op("init", 0, FALSE)

NextDamage == CalculateDamage

SpecDamage == InitDamage /\ [][NextDamage]_vars

\* One weapon used in a scene, with a hit callback that records what it is given.
InitHit ==
    /\ FxInit
    /\ HitInit
    /\ currentWeaponIndex = 0
    /\ weaponContainer = <<>>
    /\ health = 100
    /\ canJump = TRUE
    /\ onGround = FALSE
    /\ currentLookVertical = 0
    /\ rotationY = 0
    /\ cameraRotationX = 0
    /\ deaths = 0
    /\ PhysicsInit
    /\ GameInit
    /\ op = Op("init", 0, FALSE)

SpecHit == InitHit /\ [][NextWeapon]_vars

\* The player with its five weapons, from "new Player(scene, physics, camera)".
InitPlayer ==
    /\ FxInit
    /\ PlayerInit
    /\ GameInit
    /\ op = Op("init", 0, FALSE)

NextPlayer == CombatFrame

SpecPlayer == InitPlayer /\ [][NextPlayer]_vars

\* The player's body: frames, hits taken and contacts with the ground.
NextBody ==
    \/ BodyFrame
    \/ TakeDamage
    \/ HandleCollision

SpecBody == InitPlayer /\ [][NextBody]_vars

\* The player looking around: frames with mouse movement and direct updateLook calls.
NextLook ==
    \/ LookFrame
    \/ UpdateLook

SpecLook == InitPlayer /\ [][NextLook]_vars

\* The player's inventory: weapons added, equipped and cycled.
InitInventory ==
    /\ FxInit
    /\ InventoryInit
    /\ GameInit
    /\ op = Op("init", 0, FALSE)

NextInventory ==
    \/ AddWeapon
    \/ CallEquipWeapon
    \/ CallNextWeapon
    \/ CallPreviousWeapon

SpecInventory == InitInventory /\ [][NextInventory]_vars

\* What the game sets up: the physics adapter, from "new Physics()", and the weapons
\* constructed.
InitSetup ==
    /\ FxInit
    /\ weapons = <<>>
    /\ reloadLog = <<>>
    /\ now = 0
    /\ currentWeaponIndex = 0
    /\ weaponContainer = <<>>
    /\ health = 100
    /\ canJump = TRUE
    /\ onGround = FALSE
    /\ currentLookVertical = 0
    /\ rotationY = 0
    /\ cameraRotationX = 0
    /\ deaths = 0
    /\ sceneObjects = {}
    /\ hitReports = <<>>
    /\ PhysicsInit
    /\ GameInit
    /\ op = Op("init", 0, FALSE)

NextSetup ==
    \/ CreateGround
    \/ CreateBox
    \/ CreateSphere
    \/ InitPhysics
    \/ RemoveBody
    \/ Reset
    \/ PhysicsUpdate
    \/ NewWeapon

SpecSetup == InitSetup /\ [][NextSetup]_vars

\* The game manager's deferred callbacks: deaths handled, messages added, the game
\* reset, time passing and timers running.
NextGame ==
    \/ GameTick
    \/ HandlePlayerDeath
    \/ AddKillFeedMessage
    \/ GameReset
    \/ RunTimer
    \/ GameTakeDamage

\* The frames of a started game with the game manager.
NextTick ==
    \/ TickFrame
    \/ GmInitialize
    \/ GmStart

SpecTick == InitPlayer /\ [][NextTick]_vars

\* The marks on a wall under fire, and the timers that remove them.
NextMarks ==
    \/ HoldTrigger
    \/ RunTimer

SpecMarks == InitPlayer /\ [][NextMarks]_vars

\* The game manager's update with projectiles in its list.
NextProjectiles ==
    \/ GmInitialize
    \/ GmStart
    \/ AddProjectile
    \/ GmUpdate

SpecProjectiles == InitPlayer /\ [][NextProjectiles]_vars

\* The weapon-cycle keys, the wheel, the delay timer and the frames.
NextInput ==
    \/ KeyDown
    \/ KeyUp
    \/ Wheel
    \/ SwitchDelayTimer
    \/ InputFrame

SpecInput == InitPlayer /\ [][NextInput]_vars

\* The game started, paused, resumed and stopped, by calls and by events.
NextRun ==
    \/ GmInitialize
    \/ RunStart
    \/ GmPause
    \/ GmResume
    \/ GmStop
    \/ AddEventListeners
    \/ EscapeKey
    \/ PointerLockChange
    \/ GmUpdate
    \/ RunFrame

SpecRun == InitPlayer /\ [][NextRun]_vars

\* The enemies of the game: spawned by the update and by direct calls, killed, reset.
\* The game has been initialized and started (a fault each), with the level init()
\* generates for one draw of the random offsets.
InitEnemies ==
    /\ FxInit
    /\ PlayerInit
    /\ timers = <<>>
    /\ faults = 2
    /\ killFeed = <<>>
    /\ feedCount = 0
    /\ level = generate(LevelNew,
                        [teamASpawnPoint |-> NoPoint, teamBSpawnPoint |-> NoPoint,
                         blockCount |-> 25],
                        CHOOSE offsets \in OffsetPatterns : TRUE,
                        CHOOSE offsets \in OffsetPatterns : TRUE)
    /\ contactSinceJump = FALSE
    /\ tickLog = <<>>
    /\ gm = gmStart([GmNew(FALSE) EXCEPT !.initialized = TRUE])
    /\ inputController = InputControllerNew
    /\ op = Op("start", 0, TRUE)

NextEnemies ==
    \/ SpawnEnemy
    \/ EnemyDeath
    \/ EnemiesReset
    \/ GmUpdate
    \/ EnemiesFrame

SpecEnemies == InitEnemies /\ [][NextEnemies]_vars

\* The player and the game manager, in a document with or without a kill feed.
InitGame ==
    /\ FxInit
    /\ PlayerInit
    /\ \E hasKillFeed \in BOOLEAN : GameInitIn(hasKillFeed)
    /\ op = Op("init", 0, FALSE)

SpecGame == InitGame /\ [][NextGame]_vars

\* Blood impacts: impacts of every strength, hits reported to the player, updates
\* and clearAllEffects.
NextImpact ==
    \/ CreateImpact
    \/ HandleWeaponHit
    \/ FxUpdate
    \/ ClearAllEffects

SpecImpact == InitFx /\ [][NextImpact]_vars

\* The level's spawn points, from "new ProceduralLevel(scene, physics)".
NextLevel ==
    \/ Generate
    \/ ClearLevel
    \/ GetRandomSpawnPoint

SpecLevel == InitSetup /\ [][NextLevel]_vars

(***************************************************************************)
(* Properties                                                              *)
(***************************************************************************)

\* C1: after any sequence of spawn, update and clear calls the number of live
\* particle systems never exceeds maxParticleSystems and the number of live decals
\* never exceeds maxDecals, neither in the array nor in the two counters.
C1_CapsNeverExceeded ==
    /\ Cardinality({i \in DOMAIN activeEffects : activeEffects[i].type = "particle"})
           <= maxParticleSystems
    /\ Cardinality({i \in DOMAIN activeEffects : activeEffects[i].type = "decal"})
           <= maxDecals
    /\ particleCount <= maxParticleSystems
    /\ decalCount <= maxDecals

\* C2: a createBloodParticles (createBloodSplatter) call made while the count of
\* that kind is at its cap removes exactly one effect, which is of that kind and has
\* the greatest age among the live effects of that kind, removes no other effect,
\* and appends the new effect.
C2_SpawnAtCapEvictsOldest ==
    [][ /\ (op'.name = "createBloodParticles" /\ particleCount = maxParticleSystems)
            => \E j \in DOMAIN activeEffects :
                  /\ activeEffects[j].type = "particle"
                  /\ \A k \in DOMAIN activeEffects :
                        activeEffects[k].type = "particle"
                            => activeEffects[k].age <= activeEffects[j].age
                  /\ Len(activeEffects') = Len(activeEffects)
                  /\ SubSeq(activeEffects', 1, Len(activeEffects) - 1)
                         = Splice(activeEffects, j)
                  /\ activeEffects'[Len(activeEffects)].type = "particle"
                  /\ activeEffects'[Len(activeEffects)].age = 0
        /\ (op'.name = "createBloodSplatter" /\ decalCount = maxDecals)
            => \E j \in DOMAIN activeEffects :
                  /\ activeEffects[j].type = "decal"
                  /\ \A k \in DOMAIN activeEffects :
                        activeEffects[k].type = "decal"
                            => activeEffects[k].age <= activeEffects[j].age
                  /\ Len(activeEffects') = Len(activeEffects)
                  /\ SubSeq(activeEffects', 1, Len(activeEffects) - 1)
                         = Splice(activeEffects, j)
                  /\ activeEffects'[Len(activeEffects)].type = "decal"
                  /\ activeEffects'[Len(activeEffects)].age = 0 ]_vars

\* C3: a use() call made less than cooldown after the weapon's last successful use
\* (lastUsed > 0 exactly when there was one) returns false and leaves every field
\* of the weapon as it was.
C3_UseWithinCooldownChangesNothing ==
    [][ (op'.name = "use" /\ W.lastUsed > 0 /\ now - W.lastUsed < W.cooldown)
            => (op'.ret = FALSE /\ weapons' = weapons) ]_vars

\* C4: for a ranged weapon ammo.current + ammo.reserve goes down by exactly 1 across
\* a use() that returns true, is unchanged across a use() that returns false, and
\* does not go down across the update that completes a reload.
C4_AmmoTotal ==
    [][ W.type = "ranged" =>
          /\ (op'.name = "use" /\ op'.ret)
                => weapons'[1].ammo.current + weapons'[1].ammo.reserve
                       = W.ammo.current + W.ammo.reserve - 1
          /\ (op'.name = "use" /\ ~op'.ret)
                => weapons'[1].ammo.current + weapons'[1].ammo.reserve
                       = W.ammo.current + W.ammo.reserve
          /\ (op'.name = "update" /\ W.isReloading /\ ~weapons'[1].isReloading)
                => weapons'[1].ammo.current + weapons'[1].ammo.reserve
                       >= W.ammo.current + W.ammo.reserve ]_vars

\* C4, its case: a ranged weapon that has fired and has then completed a reload in
\* which fewer rounds were in reserve than the magazine lacked.
C4_Witness ==
    /\ W.type = "ranged"
    /\ op.name = "update"
    /\ W.lastUsed > 0
    /\ reloadLog[1].by # "none"
    /\ ~W.isReloading
    /\ reloadLog[1].ammo.reserve < W.ammo.max - reloadLog[1].ammo.current
    /\ W.ammo.current = reloadLog[1].ammo.current + reloadLog[1].ammo.reserve
    /\ W.ammo.reserve = 0

\* C5: ammo.current of a ranged weapon never exceeds ammo.max, in the state the
\* constructor leaves and in every state after it.
C5_CurrentAtMostMax ==
    W.type = "ranged" => W.ammo.current <= W.ammo.max

\* C6: use() on a ranged weapon with an empty magazine and rounds in reserve returns
\* false, starts a reload and consumes nothing; a weapon is no longer reloading once
\* the updates since the reload began total reloadTime; the update that completes a
\* reload sets current to min(max, current + reserve) and lowers reserve by the
\* amount moved; and a reload that use() started on an empty magazine with R in
\* reserve ends with current = min(max, R) and reserve = R - min(max, R).
C6_EmptyMagazineReload ==
    [][ W.type = "ranged" =>
          /\ (op'.name = "use" /\ ~W.isReloading /\ W.ammo.current = 0
                  /\ W.ammo.reserve > 0)
                => /\ op'.ret = FALSE
                   /\ weapons'[1].isReloading
                   /\ weapons'[1].ammo = W.ammo
          /\ weapons'[1].isReloading
                => reloadLog'[1].elapsed < weapons'[1].reloadTime
          /\ (W.isReloading /\ ~weapons'[1].isReloading)
                => /\ op'.name = "update"
                   /\ weapons'[1].ammo.current
                          = Min(W.ammo.max, W.ammo.current + W.ammo.reserve)
                   /\ weapons'[1].ammo.reserve
                          = W.ammo.reserve - (weapons'[1].ammo.current - W.ammo.current)
          /\ (W.isReloading /\ ~weapons'[1].isReloading /\ reloadLog[1].by = "use")
                => /\ reloadLog[1].ammo.current = 0
                   /\ weapons'[1].ammo.current
                          = Min(W.ammo.max, reloadLog[1].ammo.reserve)
                   /\ weapons'[1].ammo.reserve
                          = reloadLog[1].ammo.reserve
                                - Min(W.ammo.max, reloadLog[1].ammo.reserve) ]_vars

\* C6, its case: a reload that use() started on an empty magazine has been completed
\* by updates totalling at least reloadTime, and the magazine holds min(max, R).
C6_Witness ==
    /\ W.type = "ranged"
    /\ op.name = "update"
    /\ reloadLog[1].by = "use"
    /\ reloadLog[1].ammo.current = 0
    /\ reloadLog[1].ammo.reserve > 0
    /\ reloadLog[1].elapsed >= W.reloadTime
    /\ ~W.isReloading
    /\ W.ammo.current = Min(W.ammo.max, reloadLog[1].ammo.reserve)

\* C7: every weapon the player holds that is in Reloading has had less than
\* reloadTime of frame time since it entered Reloading: once the frames since then
\* total reloadTime the weapon has left Reloading, whatever the inputs were.
C7_ReloadEndsAfterReloadTime ==
    \A i \in DOMAIN weapons :
        weapons[i].isReloading => reloadLog[i].elapsed < weapons[i].reloadTime

\* C8: reload() returns false and changes nothing when the weapon is reloading, when
\* ammo.current = ammo.max or when ammo.reserve = 0; otherwise it returns true, sets
\* isReloading, sets reloadProgress to 0 and changes nothing else.
C8_ReloadContract ==
    [][ op'.name = "reload" =>
          IF W.isReloading \/ W.ammo.current = W.ammo.max \/ W.ammo.reserve = 0
          THEN op'.ret = FALSE /\ weapons' = weapons
          ELSE /\ op'.ret = TRUE
               /\ weapons' = <<[W EXCEPT !.isReloading = TRUE, !.reloadProgress = 0]>> ]_vars

\* C8, its case: reload() has just started a second reload, resetting the
\* reloadProgress the first one left.
C8_Witness ==
    /\ op.name = "reload"
    /\ op.ret = TRUE
    /\ W.isReloading
    /\ W.reloadProgress = 0
    /\ W.ammo.current < W.ammo.max
    /\ W.ammo.reserve > 0
    /\ W.lastUsed > 0

\* C9: use() of a ranged weapon returns false and changes nothing while the weapon
\* is reloading; with an empty magazine it returns false, consumes nothing and
\* starts a reload when there are rounds in reserve; a use() that returns true lowers
\* ammo.current by one and leaves ammo.reserve; and while a weapon is reloading its
\* ammo is the ammo it entered Reloading with.
C9_RangedUseContract ==
    [][ W.type = "ranged" =>
          /\ (op'.name = "use" /\ W.isReloading)
                => (op'.ret = FALSE /\ weapons' = weapons)
          /\ (op'.name = "use" /\ ~W.isReloading /\ W.ammo.current = 0)
                => /\ op'.ret = FALSE
                   /\ weapons'[1].ammo = W.ammo
                   /\ weapons'[1].isReloading = (W.ammo.reserve > 0)
          /\ (op'.name = "use" /\ op'.ret)
                => /\ weapons'[1].ammo.current = W.ammo.current - 1
                   /\ weapons'[1].ammo.reserve = W.ammo.reserve
          /\ weapons'[1].isReloading => weapons'[1].ammo = reloadLog'[1].ammo ]_vars

\* C9, its case: use() has just been refused on a weapon that is reloading with
\* rounds in the magazine and the cooldown over.
C9_Witness ==
    /\ W.type = "ranged"
    /\ op.name = "use"
    /\ op.ret = FALSE
    /\ W.isReloading
    /\ W.ammo.current > 0
    /\ W.lastUsed > 0
    /\ now - W.lastUsed >= W.cooldown

\* C10: the takeDamage call that brings health from above 0 to 0 or below invokes
\* GameManager.handlePlayerDeath once, and a takeDamage call made with health
\* already at 0 or below does not invoke it.
C10_DeathNotifiedOnce ==
    [][ op'.name = "takeDamage" =>
          /\ (health > 0 /\ health' <= 0) => deaths' = deaths + 1
          /\ health <= 0 => deaths' = deaths ]_vars

\* C11: in every reachable state the player's health is within 0..100, whatever
\* takeDamage calls were made.
C11_HealthWithinRange ==
    health >= 0 /\ health <= 100

C13_OneWeaponEquipped ==
    /\ [](/\ Len(weapons) >= 1
          /\ currentWeaponIndex \in 0..(Len(weapons) - 1)
          /\ weaponContainer = <<currentWeaponIndex>>)
    /\ [][ (op'.name = "equipWeapon" /\ (op'.arg < 0 \/ op'.arg >= Len(weapons)))
              => /\ op'.ret = FALSE
                 /\ currentWeaponIndex' = currentWeaponIndex
                 /\ weaponContainer' = weaponContainer ]_vars

\* C13, its case: a weapon that was added after construction has been equipped in
\* place of another one.
C13_Witness ==
    /\ op.name = "equipWeapon"
    /\ op.ret = TRUE
    /\ Len(weapons) = MaxWeapons
    /\ currentWeaponIndex = MaxWeapons - 1
    /\ weaponContainer = <<MaxWeapons - 1>>

\* C14: with n >= 2 weapons nextWeapon equips index + 1, and 0 from n - 1;
\* previousWeapon equips index - 1, and n - 1 from 0; nextWeapon followed by
\* previousWeapon, and n nextWeapon calls in a row, bring back the index they
\* started from; with n <= 1 both return false and change nothing.
C14_CyclingWraps ==
    /\ [][ /\ (op'.name = "nextWeapon" /\ Len(weapons) >= 2)
                => /\ op'.ret = TRUE
                   /\ currentWeaponIndex' =
                          IF currentWeaponIndex = Len(weapons) - 1 THEN 0
                          ELSE currentWeaponIndex + 1
           /\ (op'.name = "previousWeapon" /\ Len(weapons) >= 2)
                => /\ op'.ret = TRUE
                   /\ currentWeaponIndex' =
                          IF currentWeaponIndex = 0 THEN Len(weapons) - 1
                          ELSE currentWeaponIndex - 1
           /\ (op'.name \in {"nextWeapon", "previousWeapon"} /\ Len(weapons) <= 1)
                => /\ op'.ret = FALSE
                   /\ currentWeaponIndex' = currentWeaponIndex
                   /\ weaponContainer' = weaponContainer ]_vars
    /\ [](Len(weapons) >= 2 =>
            LET eq == Equipped(currentWeaponIndex, weaponContainer, FALSE)
            IN  /\ previousWeapon(Len(weapons), nextWeapon(Len(weapons), eq)).index
                       = currentWeaponIndex
                /\ NextWeaponTimes(Len(weapons), eq, Len(weapons)).index
                       = currentWeaponIndex)

\* C14, its case: nextWeapon has just wrapped from the last weapon of five or more
\* to the first.
C14_Witness ==
    /\ op.name = "nextWeapon"
    /\ op.ret = TRUE
    /\ Len(weapons) >= 5
    /\ currentWeaponIndex = 0

\* C15: every live effect has an age strictly below its lifetime and is in the
\* scene; update(dt) keeps, in their order and aged by dt, exactly the effects whose
\* age stays below their lifetime, and removes all the others in that same call.
C15_ExpiredEffectsRemoved ==
    /\ [](/\ \A i \in DOMAIN activeEffects :
                activeEffects[i].age < activeEffects[i].lifetime
          /\ sceneEffects = Len(activeEffects))
    /\ [][ op'.name = "update" =>
             LET Stays(e) == e.age + op'.arg < e.lifetime
                 kept == SelectSeq(activeEffects, Stays)
             IN  /\ Len(activeEffects') = Len(kept)
                 /\ \A i \in 1..Len(kept) :
                       activeEffects'[i] = [kept[i] EXCEPT !.age = @ + op'.arg] ]_vars

\* C15, its case: of the burst and the two splatters one createBloodImpact call
\* made, an update has removed the burst at the end of its lifetime and kept the
\* splatters.
C15_Witness ==
    /\ op.name = "update"
    /\ fxCalls = 1
    /\ Len(activeEffects) = 2
    /\ \A i \in DOMAIN activeEffects :
          activeEffects[i].type = "decal" /\ activeEffects[i].age = particleLifetime
    /\ particleCount = 0
    /\ sceneEffects = 2

\* C16: calculateDamage returns round(damage * (critical ? 2 : 1) *
\* max(0, 1 - distance / range)), for distance 0, distances within the range and
\* distances at and beyond it; the result is never negative and never above twice
\* the damage.
C16_DamageFormula ==
    [][ op'.name = "calculateDamage" =>
          LET factor == IF op'.arg.critical THEN 2 ELSE 1
              left == IF op'.arg.distance >= W.range THEN 0
                      ELSE W.range - op'.arg.distance
          IN  /\ 2 * W.range * op'.ret <= 2 * W.damage * factor * left + W.range
              /\ 2 * W.damage * factor * left + W.range < 2 * W.range * (op'.ret + 1)
              /\ op'.ret >= 0
              /\ op'.ret <= 2 * W.damage ]_vars

\* C16, its case: a weapon of damage 40 and range 2.5 reports 8 at distance 2.0.
C16_Witness ==
    /\ op.name = "calculateDamage"
    /\ W.damage = 40
    /\ W.range = 25
    /\ op.arg.distance = 20
    /\ ~op.arg.critical
    /\ op.ret = 8

\* C17: a melee use() that returns true in a scene where a ray of the fan meets
\* geometry within the range invokes the hit callback exactly once, for the nearest
\* such intersection, with round(damage * max(0, 1 - distance / range)) as the damage
\* (8 for damage 40, range 2.5 and distance 2.0).
C17_MeleeHitReported ==
    [][ LET met == {o \in sceneObjects :
                        o.ray \in 0..(2 * arcSteps) /\ o.distance <= W.range}
        IN  (op'.name = "use" /\ op'.ret /\ W.type = "melee" /\ met # {})
               => /\ Len(hitReports') = Len(hitReports) + 1
                  /\ \E o \in met :
                        /\ \A g \in met : o.distance <= g.distance
                        /\ hitReports'[Len(hitReports')].distance = o.distance
                        /\ 2 * W.range * hitReports'[Len(hitReports')].damage
                               <= 2 * W.damage * (W.range - o.distance) + W.range
                        /\ 2 * W.damage * (W.range - o.distance) + W.range
                               < 2 * W.range * (hitReports'[Len(hitReports')].damage + 1)
      ]_vars

\* C18: a use() whose rays (the fan of a melee weapon, the one ray of a ranged
\* weapon) meet no geometry within the range invokes the hit callback not at all
\* and spawns no effect.
C18_NoHitNoCallback ==
    [][ LET rays == IF W.type = "melee" THEN 0..(2 * arcSteps) ELSE {0}
            met == {o \in sceneObjects : o.ray \in rays /\ o.distance <= W.range}
        IN  (op'.name = "use" /\ met = {})
               => /\ hitReports' = hitReports
                  /\ activeEffects' = activeEffects
                  /\ particleCount' = particleCount
                  /\ decalCount' = decalCount ]_vars

\* C18, its case: a melee weapon has been swung in a scene whose only geometry lies
\* on the centre ray beyond the weapon's range, and nothing was reported.
C18_Witness ==
    /\ op.name = "use"
    /\ op.ret = TRUE
    /\ W.type = "melee"
    /\ sceneObjects # {}
    /\ \A o \in sceneObjects : o.ray = 0 /\ o.distance > W.range
    /\ hitReports = <<>>

C20_InvalidConfigurationRejected ==
    [][ /\ (op'.name = "createBox" /\ op'.arg.hasSize
                /\ \E i \in DOMAIN op'.arg.size : op'.arg.size[i] <= 0)
              => /\ physicsWorld' = physicsWorld
                 /\ physicsBodies' = physicsBodies
        /\ (op'.name = "createSphere" /\ op'.arg.hasRadius /\ op'.arg.radius <= 0)
              => /\ physicsWorld' = physicsWorld
                 /\ physicsBodies' = physicsBodies
        /\ op'.name = "newWeapon"
              => /\ weapons'[1].cooldown >= 0
                 /\ \E t \in 0..MaxNow : ~canUse(weapons'[1], t) ]_vars

\* C21: when the respawn timer of a handled death runs, three seconds after it was
\* set, the callback does not fault and the player's health is 100 again.
C21_RespawnAfterDeath ==
    [][ (op'.name = "timer" /\ op'.arg.timer.kind = "respawn")
            => /\ ~op'.ret
               /\ health' = 100 ]_vars

\* C22: Player.update applies a jump only if a collision with an upward contact normal
\* (ni.y > 0.5) has been reported since the last jump, or since construction when
\* there was no jump yet; the jump clears canJump and onGround.
C22_JumpNeedsGroundContact ==
    [][ (op'.name = "update" /\ op'.ret = TRUE)
            => /\ contactSinceJump
               /\ ~canJump' /\ ~onGround' ]_vars

\* A jump has been applied, and later frames had no ground contact yet.
C22_Witness ==
    /\ op.name = "update"
    /\ op.ret = TRUE
    /\ ~contactSinceJump
    /\ now > 1

\* C23: a createBloodImpact call (below the caps) adds one particle burst and at
\* least one decal; for an intensity above 0.7 it adds at least one decal more, and
\* for an intensity of at most 0.7 exactly one decal; the number of secondary decals
\* does not decrease when the intensity grows.
C23_ImpactComposition ==
    [][ (op'.name = "createBloodImpact"
             /\ particleCount < maxParticleSystems /\ decalCount + 3 <= maxDecals)
            => /\ particleCount' = particleCount + 1
               /\ decalCount' >= decalCount + 1
               /\ op'.arg > 700 => decalCount' >= decalCount + 2
               /\ op'.arg <= 700 => decalCount' = decalCount + 1
               /\ \A i, j \in ImpactIntensities :
                     (700 < i /\ i <= j) => extraSplatters(i) <= extraSplatters(j) ]_vars

\* C24: every particle burst among the live effects has between 30 and 80 particles,
\* the bursts that handleWeaponHit makes for the hits of the player's weapons
\* included.
C24_BurstSizeWithinRange ==
    \A i \in DOMAIN activeEffects :
        activeEffects[i].type = "particle"
            => activeEffects[i].particles >= 30 /\ activeEffects[i].particles <= 80

\* C25: getRandomSpawnPoint(team) does not fault; it returns the team's default spawn
\* point when the team's list is empty and a point of the list otherwise; after
\* generate() both teams have a non-empty list.
C25_SpawnPointFallback ==
    [][ /\ op'.name = "getRandomSpawnPoint" =>
              LET points == level.spawnPoints[op'.arg]
              IN  /\ ~op'.ret.fault
                  /\ points = <<>> =>
                        op'.ret.point = IF op'.arg = "teamA" THEN level.teamASpawnPoint
                                        ELSE level.teamBSpawnPoint
                  /\ points # <<>> => op'.ret.point \in Elements(points)
        /\ op'.name = "generate" =>
              /\ level'.spawnPoints.teamA # <<>>
              /\ level'.spawnPoints.teamB # <<>> ]_vars

\* A spawn point has been asked for from a level whose lists are empty: before
\* generate(), or after clearLevel().
C25_Witness ==
    /\ op.name = "getRandomSpawnPoint"
    /\ level.spawnPoints[op.arg] = <<>>
    /\ op.ret.point = level.teamASpawnPoint
    /\ level.teamASpawnPoint # LevelNew.teamASpawnPoint

\* C26: Physics.update(deltaTime) steps the world with the time step 1/60 s, the
\* elapsed time min(deltaTime, 0.1 s) and the sub-step limit 3, whatever deltaTime
\* is; the world makes at most 3 sub-steps.
C26_FixedStepClamped ==
    [][ op'.name = "physicsUpdate" =>
          /\ op'.ret.timeStep * 60 = 1000 * 3
          /\ op'.ret.dt = 3 * (IF op'.arg <= 100 THEN op'.arg ELSE 100)
          /\ op'.ret.maxSubSteps = 3
          /\ op'.ret.subSteps <= 3 ]_vars

\* A frame of 5 s has been stepped as 0.1 s, with 3 sub-steps.
C26_Witness ==
    /\ op.name = "physicsUpdate"
    /\ op.arg = 5000
    /\ op.ret.dt = 300
    /\ op.ret.subSteps = 3

\* C27: clearAllEffects leaves no live effect in the manager and none in the scene,
\* with both counters at 0, from any state; a run of spawns right after it finds the
\* full caps free: all its effects are live afterwards.
C27_ClearAllEffects ==
    [][ /\ op'.name = "clearAllEffects"
            => /\ activeEffects' = <<>>
               /\ particleCount' = 0
               /\ decalCount' = 0
               /\ sceneEffects' = 0
        /\ (op.name = "clearAllEffects" /\ op'.name = "particleRun")
            => /\ Len(activeEffects') = maxParticleSystems - 1
               /\ particleCount' = maxParticleSystems - 1
        /\ (op.name = "clearAllEffects" /\ op'.name = "splatterRun")
            => /\ Len(activeEffects') = maxDecals - 1
               /\ decalCount' = maxDecals - 1 ]_vars

\* clearAllEffects has removed live effects of both kinds.
C27_Witness ==
    /\ op.name = "clearAllEffects"
    /\ op.arg.particles > 0
    /\ op.arg.decals > 0
    /\ activeEffects = <<>>
    /\ sceneEffects = 0

\* C28: within every pass of animate() the effects manager's update comes last: no
\* physics step and no update of the player, an enemy or a projectile follows it in
\* the same pass.
C28_EffectsUpdateLast ==
    \A i \in DOMAIN tickLog : \A j \in DOMAIN tickLog :
        (tickLog[i] = "effects.update" /\ j > i)
            => tickLog[j] \notin {"physics.update", "player.update", "enemy.update",
                                  "projectile.update"}

\* C29: a weapon hit made during a pass's Player.update shows in that same pass: when
\* the trigger is pulled, the current weapon fires and an enemy stands on its centre
\* ray within its range, the pass ends with an effect whose age is the pass's
\* deltaTime.
C29_HitEffectAgedInSameTick ==
    [][LET i == currentWeaponIndex + 1
           w == weapons[i]
           fired == /\ useWeapon(w, now').ret
                    /\ weapons'[i] = update(useWeapon(w, now').weapon, op'.arg)
           inSight == \E o \in sceneObjects :
                          o.isEnemy /\ o.ray = 0 /\ o.distance <= w.range
       IN  (op'.name = "update" /\ fired /\ inSight)
               => \E k \in DOMAIN activeEffects' : activeEffects'[k].age = op'.arg]_vars

\* C30: a kill-feed timer that runs after its item has left the feed (as after
\* reset() emptied it) does nothing and raises no fault.
C30_StaleTimerIsNoOp ==
    [][(op'.name = "timer" /\ op'.arg.timer.kind = "killFeed" /\ ~op'.arg.present)
           => (~op'.ret /\ faults' = faults /\ killFeed' = killFeed)]_vars

\* C31: a deferred action runs only inside a pass of a running, unpaused game: no
\* timer callback runs while the game is paused or stopped.
C31_TimersRunOnlyInRunningGame ==
    [][op'.name = "timer" => (gm.isRunning /\ ~gm.isPaused)]_vars

\* C32: a melee weapon goes Idle -> Acting -> Idle: a successful use starts a swing at
\* progress 0, updates totalling swingDuration end it, and an idle melee weapon has
\* progress 0 and its model at the rest rotation it had before its first swing.
C32_SwingReturnsToRest ==
    /\ [](\A i \in DOMAIN weapons :
             (weapons[i].type = "melee" /\ ~weapons[i].isSwinging)
                 => (weapons[i].swingProgress = 0 /\ weapons[i].rotation = 0))
    /\ [][(op'.name = "use" /\ op'.ret /\ W.type = "melee")
              => (W'.isSwinging /\ W'.swingProgress = 0)]_vars
    /\ [][(op'.name = "update" /\ W.type = "melee" /\ W.isSwinging
              /\ W.swingProgress + op'.arg >= W.swingDuration)
              => ~W'.isSwinging]_vars

\* C33: after every generate() the physics world holds the bodies of the latest level
\* only: one ground, four outer walls, two spawn platforms and the level's blocks,
\* ramps and platforms.
C33_RegenerateKeepsOneLevel ==
    [][op'.name = "generate" =>
          /\ Len(physicsWorld') = staticBodies + 2 + Len(level'.objects)
          /\ Cardinality({i \in DOMAIN physicsWorld' : physicsWorld'[i].shape = "plane"}) = 1
      ]_vars

\* C34: particleCount is the number of effects of type "particle" in activeEffects,
\* decalCount the number of type "decal", and neither is negative.
C34_CountersMatchEffects ==
    /\ particleCount =
           Cardinality({i \in DOMAIN activeEffects : activeEffects[i].type = "particle"})
    /\ decalCount =
           Cardinality({i \in DOMAIN activeEffects : activeEffects[i].type = "decal"})
    /\ particleCount >= 0
    /\ decalCount >= 0

\* An update has taken the bursts out and left decals behind, with the decal counter
\* at the cap.
C34_Witness ==
    /\ op.name = "update"
    /\ particleCount = 0
    /\ decalCount = maxDecals
    /\ Len(activeEffects) = maxDecals

\* C35: the marks of hits on surfaces are capped as the decals are: there are never
\* more than maxDecals of them in the scene.
C35_MarksCapped == liveMarks <= maxDecals

\* C36: after GameManager.update has run its loop, no projectile of the list has
\* shouldRemove set, and every projectile that was in the list was updated exactly
\* once.
C36_ProjectilesSwept ==
    [][(op'.name = "gmUpdate" /\ gm.isRunning /\ ~gm.isPaused /\ gm.initialized)
          => /\ \A i \in DOMAIN gm'.projectiles : ~gm'.projectiles[i].shouldRemove
             /\ \A i \in DOMAIN gm.projectiles :
                   Cardinality({k \in DOMAIN op'.ret : op'.ret[k] = gm.projectiles[i].id}) = 1
      ]_vars

\* C37: a press of Q, E or the wheel that the controller accepted changes the weapon
\* in the next Player.update, and no press is accepted within 250 ms of an accepted
\* one.
C37_AcceptedPressSwitches ==
    [][/\ (op'.name = "update" /\ inputController.accepted = 1)
            => currentWeaponIndex' # currentWeaponIndex
       /\ (inputController'.accepted > inputController.accepted
              /\ inputController.lastAccepted # NoPress)
            => (now - inputController.lastAccepted) * 100 >= switchDelay
      ]_vars

\* C38: a paused game is a running one, and an update of the manager while the game is
\* not running or is paused changes nothing of the manager: no physics step, no spawn,
\* no update of an enemy or a projectile, no fault.
C38_PausedImpliesRunning ==
    /\ [](gm.isPaused => gm.isRunning)
    /\ [][(op'.name \in {"gmUpdate", "update"} /\ (~gm.isRunning \/ gm.isPaused))
             => /\ gm' = gm
                /\ faults' = faults
                /\ \A i \in DOMAIN tickLog' :
                      tickLog'[i] \in {"physics.update", "player.update", "effects.update"}
                /\ Len(tickLog') \in {0, 3}
         ]_vars

C38_Witness ==
    /\ op.name = "gmUpdate"
    /\ gm.isPaused
    /\ gm.initialized
    /\ gm.listeners > 0
    /\ Len(gm.enemies) > 0

\* C39: the list of enemies never holds more than maxEnemies, and an enemy that leaves
\* the list (by its death or by reset) leaves no body in the manager's physics: the
\* world and the adapter's list hold the bodies of listed enemies only.
C39_EnemiesCapped ==
    /\ [](/\ Len(gm.enemies) <= maxEnemies
          /\ Elements(gm.physics.world) \subseteq Elements(gm.enemies)
          /\ Elements(gm.physics.bodies) \subseteq Elements(gm.enemies))
    /\ [][\A enemy \in Elements(gm.enemies) \ Elements(gm'.enemies) :
             /\ enemy \notin Elements(gm'.physics.world)
             /\ enemy \notin Elements(gm'.physics.bodies)]_vars

C39_Witness ==
    /\ op.name = "handleEnemyDeath"
    /\ op.ret
    /\ Len(gm.enemies) = maxEnemies - 1
    /\ gm.created > maxEnemies
    /\ Len(gm.physics.world) = maxEnemies - 1

====
